---- MODULE Spec2Model ----
(***************************************************************************)
(* Leader-per-market coordination of the copy trading bot.                 *)
(*                                                                         *)
(* The MarketLeader collection (models/marketLeader, a MongoDB collection  *)
(* with two unique indexes), the LeaderService operations that read and    *)
(* write it, and the trade router of the executor that consults it.        *)
(* Every await on the store is one atomic step; several coordinator        *)
(* instances run their operations interleaved against the same store.      *)
(*                                                                         *)
(* Units: timestamps are unix seconds, Date.now() is milliseconds,         *)
(* position sizes are counted in hundredths (DUST_THRESHOLD 0.01 is 1),    *)
(* usdcSize in half dollars (TRADE_AGGREGATION_MIN_TOTAL_USD 1.0 is 2).    *)
(* Of a document only the fields the operations read are kept: asset,      *)
(* slug and title are written once and never read by any decision.         *)
(***************************************************************************)
EXTENDS Integers, Sequences, FiniteSets, TLC

VARIABLES
    leaders,      \* the MarketLeader collection: a set of documents
    pc,           \* per coordinator instance: where its current call is suspended
    estWinner,    \* establishLeader: the winner picked before the create
    unfTracked,   \* cleanupUnfollowedLeaders: normalizedAddresses
    staleCutoff,  \* cleanupStaleLeaders: cutoffTime
    staleScan,    \* cleanupStaleLeaders: staleLeaders as read by the find, in its order
    staleIndex,   \* cleanupStaleLeaders: the leader the for loop is at
    staleCache,   \* cleanupStaleLeaders: positionsCache
    staleRelease, \* cleanupStaleLeaders: releaseCandidates
    activity,     \* the UserActivity collections: the observed trades by _id
    rt,           \* the executor: where processTradesByLeader is and its locals
    buffer,       \* tradeAggregationBuffer
    dispatched,   \* the trades handed to postOrder, in order
    loop,         \* the executor's poll loop: where it is and the locals of its buffer scan
    clock,        \* Date.now(), in milliseconds
    isRunning,    \* the stop flag of the poll loop
    released,     \* the aggregated trades handed to postOrder, in order
    rows,         \* aggregateTradeActivities: the batch it is given
    results,      \* aggregateTradeActivities: what it returned for the batch
    args,         \* a call of a pure function: its arguments
    ret,          \* a call of a pure function: what it returned
    cause,        \* history: per trade, why the executor finalized it without an order
    hist,         \* history: per coordinator instance, its call that completed last
    seen          \* history: per document (by its unique hash) the timestamps recorded for it

staleVars == <<staleCutoff, staleScan, staleIndex, staleCache, staleRelease>>
routerVars == <<activity, rt, buffer, dispatched>>
pollVars == <<loop, clock, isRunning, released, cause>>
aggVars == <<rows, results>>
callVars == <<args, ret>>
vars == <<leaders, pc, estWinner, unfTracked, staleCutoff, staleScan, staleIndex,
          staleCache, staleRelease, activity, rt, buffer, dispatched, loop, clock, isRunning,
          released, rows, results, args, ret, cause, hist, seen>>

----------------------------------------------------------------------------
(* Bounds of the model *)

MaxTs == 1
MaxUsdc == 2
MaxTrades == 3
MaxClock == 2
MaxRows == 3
MaxTick == 210

(* Program constants *)

DUST_THRESHOLD == 1
TRADE_AGGREGATION_MIN_TOTAL_USD == 2
LEADER_ELECTION_WINDOW_SECONDS == 2
BOT_EXECUTED_TIME_BUFFERED == 1
TRADE_AGGREGATION_WINDOW_SECONDS == 1

----------------------------------------------------------------------------
(* Input domains *)

Procs == {"p1", "p2"}
Markets == {"m1", "m2"}
Hashes == {"h1", "h2"}
Sides == {"BUY", "SELL"}
InputAddresses == {"a", "A", "b"}
CandidateAddresses == {"A", "b"}
Timestamps == {k * 3600 : k \in 0..MaxTs}
UsdcSizes == 1..MaxUsdc

ToLowerCase(s) ==
    CASE s = "A" -> "a"
      [] s = "B" -> "b"
      [] OTHER -> s

Max(x, y) == IF x >= y THEN x ELSE y

NoCandidate ==
    [userAddress |-> "", conditionId |-> "", side |-> "", usdcSize |-> 0,
     timestamp |-> 0, transactionHash |-> ""]

Candidate(a, c, s, u, t, h) ==
    [userAddress |-> a, conditionId |-> c, side |-> s, usdcSize |-> u,
     timestamp |-> t, transactionHash |-> h]

(* The candidate lists one call is given: the signals of one window of one
   instrument (one conditionId, and here one timestamp and settlement hash),
   at most two of them. *)
CandidateLists(markets, sizes, tss) ==
    {<<>>}
    \cup { <<Candidate(x[1], c, x[2], x[3], t, h)>> :
             x \in CandidateAddresses \X Sides \X sizes,
             c \in markets, t \in tss, h \in Hashes }
    \cup { <<Candidate(x[1], c, x[2], x[3], t, h), Candidate(y[1], c, y[2], y[3], t, h)>> :
             x \in CandidateAddresses \X Sides \X sizes,
             y \in CandidateAddresses \X Sides \X sizes,
             c \in markets, t \in tss, h \in Hashes }

(* The lists of one candidate of one account on one instrument *)
FoundingLists(a, c, tss) ==
    { <<Candidate(a, c, s, 1, t, h)>> : s \in Sides, t \in tss, h \in Hashes }

----------------------------------------------------------------------------
(* The Leader Store *)

NoLeader ==
    [conditionId |-> "", leaderAddress |-> "", side |-> "", initialTradeSize |-> 0,
     initialTradeTimestamp |-> 0, lastTradeTimestamp |-> 0,
     initialTransactionHash |-> "", isActive |-> FALSE]

ActiveLeaders(c) == { r \in leaders : r.conditionId = c /\ r.isActive }

HasActiveLeader(c) == ActiveLeaders(c) # {}

(* findOne({conditionId, isActive: true}) *)
getActiveLeader(c) ==
    IF HasActiveLeader(c) THEN CHOOSE r \in ActiveLeaders(c) : TRUE ELSE NoLeader

(* The document MarketLeader.create is given *)
NewLeaderDoc(w) ==
    [conditionId |-> w.conditionId,
     leaderAddress |-> ToLowerCase(w.userAddress),
     side |-> w.side,
     initialTradeSize |-> w.usdcSize,
     initialTradeTimestamp |-> w.timestamp,
     lastTradeTimestamp |-> w.timestamp,
     initialTransactionHash |-> w.transactionHash,
     isActive |-> TRUE]

ViolatedIndexesHashOnly(doc) ==
    { k \in {"initialTransactionHash"} :
        \E r \in leaders : r.initialTransactionHash = doc.initialTransactionHash }

(* The unique indexes an insert of doc violates *)
ViolatedIndexes(doc) ==
    { k \in {"conditionId_isActive", "initialTransactionHash"} :
        \/ /\ k = "conditionId_isActive"
           /\ doc.isActive
           /\ \E r \in leaders : r.isActive /\ r.conditionId = doc.conditionId
        \/ /\ k = "initialTransactionHash"
           /\ \E r \in leaders : r.initialTransactionHash = doc.initialTransactionHash }

DeactivatedAndCleared(r) == [r EXCEPT !.isActive = FALSE, !.lastTradeTimestamp = 0]

(* {$set: {isActive: false}} *)
Deactivated(r) == [r EXCEPT !.isActive = FALSE]

(* updateMany(filter, {$set: {isActive: false}}) *)
DeactivateAll(matched) == (leaders \ matched) \cup { Deactivated(r) : r \in matched }

----------------------------------------------------------------------------
(* Return values *)

RetPending == [kind |-> "pending", cand |-> NoCandidate, flag |-> FALSE, count |-> 0]
RetNull == [kind |-> "null", cand |-> NoCandidate, flag |-> FALSE, count |-> 0]
RetCand(c) == [kind |-> "cand", cand |-> c, flag |-> FALSE, count |-> 0]
RetBool(b) == [kind |-> "bool", cand |-> NoCandidate, flag |-> b, count |-> 0]
RetCount(n) == [kind |-> "count", cand |-> NoCandidate, flag |-> FALSE, count |-> n]
RetVoid == [kind |-> "void", cand |-> NoCandidate, flag |-> FALSE, count |-> 0]
RetError == [kind |-> "error", cand |-> NoCandidate, flag |-> FALSE, count |-> 0]

----------------------------------------------------------------------------
(* establishLeader *)

BuyCandidatesUnfiltered(cands) == cands

BuyCandidates(cands) == SelectSeq(cands, LAMBDA c : c.side = "BUY")

(* x goes behind every element that does not sort after it: the stable
   descending order of [...buyCandidates].sort((a, b) => b.usdcSize - a.usdcSize) *)
RECURSIVE InsertAsc(_, _)
InsertAsc(x, s) ==
    IF s = <<>> THEN <<x>>
    ELSE IF Head(s).usdcSize <= x.usdcSize
         THEN <<Head(s)>> \o InsertAsc(x, Tail(s))
         ELSE <<x>> \o s

RECURSIVE InsertDesc(_, _)
InsertDesc(x, s) ==
    IF s = <<>> THEN <<x>>
    ELSE IF Head(s).usdcSize >= x.usdcSize
         THEN <<Head(s)>> \o InsertDesc(x, Tail(s))
         ELSE <<x>> \o s

RECURSIVE SortedCandidates(_)
SortedCandidates(s) ==
    IF s = <<>> THEN <<>>
    ELSE InsertDesc(s[Len(s)], SortedCandidates(SubSeq(s, 1, Len(s) - 1)))

Winner(cands) == SortedCandidates(BuyCandidates(cands))[1]

(* The TradeCandidate built from the re-read active leader *)
CandidateOfLeader(r) ==
    Candidate(r.leaderAddress, r.conditionId, r.side, r.initialTradeSize,
              r.initialTradeTimestamp, r.initialTransactionHash)

(* Each operation is an action over the store with the value it returns as
   the parameter res (RetPending while the call is suspended at an await). *)

(* the call is issued: filter, sort, pick the winner; without a BUY
   candidate it returns null before any store access *)
EstablishCall(p, cands, res) ==
    /\ pc[p] = "idle"
    /\ IF Len(BuyCandidates(cands)) = 0
       THEN /\ res = RetNull
            /\ UNCHANGED <<pc, estWinner>>
       ELSE /\ res = RetPending
            /\ pc' = [pc EXCEPT ![p] = "est_create"]
            /\ estWinner' = [estWinner EXCEPT ![p] = Winner(cands)]
    /\ UNCHANGED <<leaders, unfTracked, staleVars>>

(* MarketLeader.create: inserted, or rejected with E11000 by a unique index;
   of the winner the catch branch reads the conditionId alone *)
EstablishCreate(p, res) ==
    /\ pc[p] = "est_create"
    /\ LET doc == NewLeaderDoc(estWinner[p])
       IN IF ViolatedIndexes(doc) = {}
          THEN /\ res = RetCand(estWinner[p])
               /\ leaders' = leaders \cup {doc}
               /\ pc' = [pc EXCEPT ![p] = "idle"]
               /\ estWinner' = [estWinner EXCEPT ![p] = NoCandidate]
          ELSE /\ res = RetPending
               /\ pc' = [pc EXCEPT ![p] = "est_dup"]
               /\ estWinner' = [estWinner EXCEPT ![p] =
                                  [NoCandidate EXCEPT !.conditionId = doc.conditionId]]
               /\ UNCHANGED leaders
    /\ UNCHANGED <<unfTracked, staleVars>>

(* the catch branch: for either key pattern the active leader is re-read *)
EstablishReread(p, res) ==
    /\ pc[p] = "est_dup"
    /\ LET c == estWinner[p].conditionId
       IN res = IF HasActiveLeader(c)
                THEN RetCand(CandidateOfLeader(getActiveLeader(c)))
                ELSE RetNull
    /\ pc' = [pc EXCEPT ![p] = "idle"]
    /\ estWinner' = [estWinner EXCEPT ![p] = NoCandidate]
    /\ UNCHANGED <<leaders, unfTracked, staleVars>>

EstablishCreateApplied(p, res) ==
    /\ pc[p] = "est_create"
    /\ res = RetError
    /\ leaders' = leaders \cup {NewLeaderDoc(estWinner[p])}
    /\ pc' = [pc EXCEPT ![p] = "idle"]
    /\ estWinner' = [estWinner EXCEPT ![p] = NoCandidate]
    /\ UNCHANGED <<unfTracked, staleVars>>

(* MarketLeader.create is rejected with an error that is not E11000: nothing
   is inserted and the catch branch throws the error again *)
EstablishCreateFails(p, res) ==
    /\ pc[p] = "est_create"
    /\ res = RetError
    /\ pc' = [pc EXCEPT ![p] = "idle"]
    /\ estWinner' = [estWinner EXCEPT ![p] = NoCandidate]
    /\ UNCHANGED <<leaders, unfTracked, staleVars>>

(* the getActiveLeader of the catch branch is rejected: the rejection leaves
   establishLeader *)
EstablishRereadFails(p, res) ==
    /\ pc[p] = "est_dup"
    /\ res = RetError
    /\ pc' = [pc EXCEPT ![p] = "idle"]
    /\ estWinner' = [estWinner EXCEPT ![p] = NoCandidate]
    /\ UNCHANGED <<leaders, unfTracked, staleVars>>

----------------------------------------------------------------------------
(* releaseLeadership, recordLeaderTrade *)

(* the filter {conditionId, leaderAddress: leaderAddress.toLowerCase(), isActive: true} *)
MatchesLeaderExactCase(r, c, a) ==
    r.conditionId = c /\ r.leaderAddress = a /\ r.isActive

MatchesLeader(r, c, a) ==
    r.conditionId = c /\ r.leaderAddress = ToLowerCase(a) /\ r.isActive

releaseLeadership(p, c, a, res) ==
    /\ pc[p] = "idle"
    /\ LET matched == { r \in leaders : MatchesLeader(r, c, a) }
       IN IF matched = {}
          THEN /\ res = RetBool(FALSE)
               /\ UNCHANGED leaders
          ELSE /\ res = RetBool(TRUE)
               /\ \E r \in matched : leaders' = (leaders \ {r}) \cup {Deactivated(r)}
    /\ UNCHANGED <<pc, estWinner, unfTracked, staleVars>>

SetTimestamp(r, t) == [r EXCEPT !.lastTradeTimestamp = t]

(* {$max: {lastTradeTimestamp: timestamp}} *)
MaxTimestamp(r, t) == [r EXCEPT !.lastTradeTimestamp = Max(r.lastTradeTimestamp, t)]

recordLeaderTrade(p, c, a, t, res) ==
    /\ pc[p] = "idle"
    /\ res = RetVoid
    /\ LET matched == { r \in leaders : MatchesLeader(r, c, a) }
       IN IF matched = {}
          THEN UNCHANGED leaders
          ELSE \E r \in matched :
                 leaders' = (leaders \ {r}) \cup {MaxTimestamp(r, t)}
    /\ UNCHANGED <<pc, estWinner, unfTracked, staleVars>>

----------------------------------------------------------------------------
(* cleanupUnfollowedLeaders *)

NormalizedAddressesRaw(tracked) == tracked

NormalizedAddresses(tracked) == { ToLowerCase(a) : a \in tracked }

(* the filter {isActive: true, leaderAddress: {$nin: normalizedAddresses}} *)
Unfollowed(normalized) ==
    { r \in leaders : r.isActive /\ r.leaderAddress \notin normalized }

UnfollowedFind(p, tracked, res) ==
    /\ pc[p] = "idle"
    /\ IF Unfollowed(NormalizedAddresses(tracked)) = {}
       THEN /\ res = RetCount(0)
            /\ UNCHANGED <<pc, unfTracked>>
       ELSE /\ res = RetPending
            /\ pc' = [pc EXCEPT ![p] = "unf_update"]
            /\ unfTracked' = [unfTracked EXCEPT ![p] = NormalizedAddresses(tracked)]
    /\ UNCHANGED <<leaders, estWinner, staleVars>>

UnfollowedUpdate(p, res) ==
    /\ pc[p] = "unf_update"
    /\ LET matched == Unfollowed(unfTracked[p])
       IN /\ res = RetCount(Cardinality(matched))
          /\ leaders' = DeactivateAll(matched)
    /\ pc' = [pc EXCEPT ![p] = "idle"]
    /\ unfTracked' = [unfTracked EXCEPT ![p] = {}]
    /\ UNCHANGED <<estWinner, staleVars>>

----------------------------------------------------------------------------
(* cleanupStaleLeaders *)

(* Date.now() / 1000 - maxAgeHours * 60 * 60 is a fraction of a second when
   Date.now() is not a whole second: the cutoff is kept in milliseconds,
   1000 times the source's value, and compared with 1000 times the timestamp *)
CutoffTime(nowMs, maxAgeHours) == nowMs - maxAgeHours * 60 * 60 * 1000

(* the find: documents always carry lastTradeTimestamp (the schema requires
   it and create sets it), so the $exists: false branch selects nothing *)
StaleLeaders(cutoffTime) ==
    { r \in leaders : r.isActive /\ r.lastTradeTimestamp * 1000 < cutoffTime }

Position(c, s) == [conditionId |-> c, size |-> s]

(* what fetchData may answer for one account *)
FetchThrows == [kind |-> "throw", positions |-> <<>>]
FetchNotArray == [kind |-> "notArray", positions |-> <<>>]
FetchList(ps) == [kind |-> "list", positions |-> ps]

(* getLeaderPositions: null for a failed or malformed answer *)
CacheNull == [cached |-> TRUE, isNull |-> TRUE, positions |-> <<>>]
CacheList(ps) == [cached |-> TRUE, isNull |-> FALSE, positions |-> ps]

getLeaderPositions(answer) ==
    IF answer.kind = "list" THEN CacheList(answer.positions) ELSE CacheNull

(* positions.some(p => p.conditionId === leader.conditionId && (p.size || 0) > DUST_THRESHOLD) *)
HasPosition(positions, c) ==
    \E i \in 1..Len(positions) :
        positions[i].conditionId = c /\ positions[i].size > DUST_THRESHOLD

(* the pair pushed on releaseCandidates *)
ReleaseCandidate(r) == [conditionId |-> r.conditionId, leaderAddress |-> ToLowerCase(r.leaderAddress)]

(* an account positionsCache has no entry for *)
NotCached == [cached |-> FALSE, isNull |-> TRUE, positions |-> <<>>]

(* the orders in which a find may return the documents of S *)
Orderings(S) ==
    { q \in [1..Cardinality(S) -> S] : \A i, j \in 1..Cardinality(S) : i # j => q[i] # q[j] }

NoCache == [a \in {"a", "b"} |-> NotCached]

(* the index of the first leader from i on whose account positionsCache has
   no entry for, Len(scan) + 1 when there is none: the for loop runs on to it
   without awaiting *)
RECURSIVE NextLookup(_, _, _)
NextLookup(scan, cache, i) ==
    IF i > Len(scan) THEN i
    ELSE IF cache[scan[i].leaderAddress].cached THEN NextLookup(scan, cache, i + 1)
    ELSE i

(* a null answer empties releaseCandidates *)
ReleaseCandidatesOrAbort(release, stale, cache) ==
    IF \E x \in stale : cache[x.leaderAddress].isNull
    THEN {}
    ELSE release \cup
         { ReleaseCandidate(r) :
             r \in { x \in stale :
                       ~HasPosition(cache[x.leaderAddress].positions, x.conditionId) } }

(* releaseCandidates after the body of the for loop for the leaders of
   stale: a leader whose positions are null is skipped, one without a
   position above dust in its market is pushed *)
ReleaseCandidates(release, stale, cache) ==
    release \cup
    { ReleaseCandidate(r) :
        r \in { x \in stale : /\ ~cache[x.leaderAddress].isNull
                              /\ ~HasPosition(cache[x.leaderAddress].positions, x.conditionId) } }

(* the call returns: its locals are gone *)
StaleReturn(p) ==
    /\ pc' = [pc EXCEPT ![p] = "idle"]
    /\ staleCutoff' = [staleCutoff EXCEPT ![p] = 0]
    /\ staleScan' = [staleScan EXCEPT ![p] = <<>>]
    /\ staleIndex' = [staleIndex EXCEPT ![p] = 0]
    /\ staleCache' = [staleCache EXCEPT ![p] = NoCache]
    /\ staleRelease' = [staleRelease EXCEPT ![p] = {}]

(* await MarketLeader.find({isActive: true, lastTradeTimestamp < cutoffTime}):
   0 is returned when nothing is found; else the loop reaches the lookup of
   the first leader's account *)
StaleFind(p, nowMs, maxAgeHours, res) ==
    /\ pc[p] = "idle"
    /\ LET cutoffTime == CutoffTime(nowMs, maxAgeHours)
           stale == StaleLeaders(cutoffTime)
       IN IF stale = {}
          THEN /\ res = RetCount(0)
               /\ UNCHANGED <<pc, staleVars>>
          ELSE /\ res = RetPending
               /\ pc' = [pc EXCEPT ![p] = "stale_lookup"]
               /\ staleCutoff' = [staleCutoff EXCEPT ![p] = cutoffTime]
               /\ \E scan \in Orderings(stale) : staleScan' = [staleScan EXCEPT ![p] = scan]
               /\ staleIndex' = [staleIndex EXCEPT ![p] = 1]
               /\ UNCHANGED <<staleCache, staleRelease>>
    /\ UNCHANGED <<leaders, estWinner, unfTracked>>

(* await fetchData(positions of the account of the leader the loop is at) is
   answered: the answer is cached, and the loop handles that leader and the
   following ones whose account is cached, up to the next lookup; after the
   last leader 0 is returned when there is no release candidate *)
StaleLookup(p, answer, res) ==
    /\ pc[p] = "stale_lookup"
    /\ LET scan == staleScan[p]
           i == staleIndex[p]
           cache == [staleCache[p] EXCEPT ![scan[i].leaderAddress] = getLeaderPositions(answer)]
           j == NextLookup(scan, cache, i)
           release == ReleaseCandidates(staleRelease[p], { scan[k] : k \in i..(j - 1) }, cache)
       IN IF j <= Len(scan)
          THEN /\ res = RetPending
               /\ staleIndex' = [staleIndex EXCEPT ![p] = j]
               /\ staleCache' = [staleCache EXCEPT ![p] = cache]
               /\ staleRelease' = [staleRelease EXCEPT ![p] = release]
               /\ UNCHANGED <<pc, staleCutoff, staleScan>>
          ELSE IF release = {}
          THEN /\ res = RetCount(0)
               /\ StaleReturn(p)
          ELSE /\ res = RetPending
               /\ pc' = [pc EXCEPT ![p] = "stale_update"]
               /\ staleIndex' = [staleIndex EXCEPT ![p] = j]
               /\ staleCache' = [staleCache EXCEPT ![p] = cache]
               /\ staleRelease' = [staleRelease EXCEPT ![p] = release]
               /\ UNCHANGED <<staleCutoff, staleScan>>
    /\ UNCHANGED <<leaders, estWinner, unfTracked>>

(* await MarketLeader.updateMany({$or: releaseCandidates.map(c =>
   ({conditionId, leaderAddress, isActive: true}))}, {$set: {isActive: false}}) *)
StaleUpdate(p, res) ==
    /\ pc[p] = "stale_update"
    /\ LET matched == { r \in leaders :
                          \E e \in staleRelease[p] :
                              /\ r.conditionId = e.conditionId
                              /\ r.leaderAddress = e.leaderAddress
                              /\ r.isActive }
       IN /\ res = RetCount(Cardinality(matched))
          /\ leaders' = DeactivateAll(matched)
    /\ StaleReturn(p)
    /\ UNCHANGED <<estWinner, unfTracked>>

----------------------------------------------------------------------------
(* Inputs of the cleanup calls *)

LowerAddresses == { ToLowerCase(a) : a \in InputAddresses }
TrackedLists == SUBSET CandidateAddresses
NowMs == { 3600 * 1000 + 500 } \cup { k * 3600 * 1000 : k \in 2..(MaxTs + 2) }
FewNowMs == { 3600 * 1000 + 500, 2 * 3600 * 1000 }
FetchAnswers ==
    {FetchThrows, FetchNotArray, FetchList(<<>>)}
    \cup { FetchList(<<Position("m1", s)>>) : s \in {DUST_THRESHOLD, DUST_THRESHOLD + 1} }
FewFetchAnswers == {FetchThrows, FetchList(<<>>), FetchList(<<Position("m1", 2)>>)}

----------------------------------------------------------------------------
(* History: what each coordinator instance's last call was and returned.
   A specification either records a call an instance makes directly (the Log
   operators) or does not (Unlogged); the operations never read the history,
   and the executor does not move during a direct call. *)

NoCall ==
    [seq |-> FALSE, op |-> "none", step |-> "", cond |-> "", inAddr |-> "", ts |-> 0,
     tracked |-> {}, cands |-> <<>>, nCands |-> 0, hasBuy |-> FALSE, noLeader |-> FALSE,
     raced |-> FALSE, disturbed |-> FALSE, dueRelease |-> FALSE, failedLookup |-> FALSE,
     creates |-> 0, kind |-> "", addr |-> "", flag |-> FALSE, count |-> 0]

(* seq alternates with every call an instance issues *)
NewCall(p, op, step) == [NoCall EXCEPT !.seq = ~hist[p].seq, !.op = op, !.step = step]

Returned(e, res) ==
    [e EXCEPT !.kind = res.kind, !.addr = res.cand.userAddress,
              !.flag = res.flag, !.count = res.count]

Unlogged == UNCHANGED <<hist, seen, activity, rt, buffer, dispatched, pollVars, aggVars, callVars>>

HasBuy(cands) == \E i \in DOMAIN cands : cands[i].side = "BUY"

(* establishLeader is called with cands: how many they are and whether a BUY
   is among them; the list itself stays recorded while the call is in flight *)
LogEstablishCall(p, cands, res) ==
    /\ hist' = [hist EXCEPT ![p] =
                  Returned([NewCall(p, "establishLeader", "call") EXCEPT
                              !.cands = IF res = RetPending THEN cands ELSE <<>>,
                              !.nCands = Len(cands),
                              !.hasBuy = HasBuy(cands)],
                           res)]
    /\ UNCHANGED <<seen, activity, rt, buffer, dispatched, pollVars, aggVars, callVars>>

(* a later step of the call in flight; the candidates stay recorded with a
   call that created its document *)
LogStep(p, step, res) ==
    /\ hist' = [hist EXCEPT ![p] =
                  Returned([@ EXCEPT !.step = step,
                                     !.creates = IF step = "create" THEN @ + 1 ELSE @,
                                     !.cands = IF res.kind = "cand" /\ step = "create"
                                               THEN @ ELSE <<>>],
                           res)]
    /\ UNCHANGED <<seen, activity, rt, buffer, dispatched, pollVars, aggVars, callVars>>

InFlight(q) == hist[q].op = "establishLeader" /\ hist[q].kind = "pending"

(* the conditionId of the list's candidates *)
MarketOf(cands) == IF cands = <<>> THEN "" ELSE cands[1].conditionId

(* establishLeader is called for instrument c: whether c had an active leader
   then; raced when the one call it overlaps is an establishLeader of another
   instance for c, disturbed when it overlaps any other call *)
LogEstablishRace(p, c, res) ==
    /\ hist' = [q \in Procs |->
                  IF q = p
                  THEN Returned([NoCall EXCEPT
                                   !.op = "establishLeader", !.step = "call",
                                   !.cond = c,
                                   !.noLeader = ~HasActiveLeader(c),
                                   !.raced = \E o \in Procs \ {p} :
                                                InFlight(o) /\ hist[o].cond = c,
                                   !.disturbed = \E o \in Procs \ {p} :
                                                    InFlight(o) /\ hist[o].cond # c],
                                res)
                  ELSE IF ~InFlight(q) THEN hist[q]
                  ELSE IF res = RetPending /\ hist[q].cond = c /\ ~hist[q].raced
                       THEN [hist[q] EXCEPT !.raced = TRUE]
                       ELSE [hist[q] EXCEPT !.disturbed = TRUE]]
    /\ UNCHANGED <<seen, activity, rt, buffer, dispatched, pollVars, aggVars, callVars>>

(* a call of one step that is not an establishLeader *)
LogOther(p, op, res) ==
    /\ hist' = [q \in Procs |->
                  IF q = p THEN Returned([NoCall EXCEPT !.op = op, !.step = "update"], res)
                  ELSE IF InFlight(q) THEN [hist[q] EXCEPT !.disturbed = TRUE]
                  ELSE hist[q]]
    /\ UNCHANGED <<seen, activity, rt, buffer, dispatched, pollVars, aggVars, callVars>>

(* releaseLeadership(c, a) *)
LogRelease(p, c, a, res) ==
    /\ hist' = [hist EXCEPT ![p] =
                  Returned([NewCall(p, "releaseLeadership", "update") EXCEPT
                              !.cond = c, !.inAddr = a], res)]
    /\ UNCHANGED <<seen, activity, rt, buffer, dispatched, pollVars, aggVars, callVars>>

(* recordLeaderTrade(c, a, t): t joins the timestamps recorded for the
   document of c's active leader when a names that leader *)
LogRecord(p, c, a, t, res) ==
    /\ hist' = [hist EXCEPT ![p] =
                  Returned([NewCall(p, "recordLeaderTrade", "update") EXCEPT
                              !.cond = c, !.inAddr = a, !.ts = t], res)]
    /\ seen' = [h \in Hashes |->
                  IF \E r \in leaders :
                        /\ r.initialTransactionHash = h
                        /\ r.isActive
                        /\ r.conditionId = c
                        /\ r.leaderAddress = ToLowerCase(a)
                  THEN seen[h] \cup {t}
                  ELSE seen[h]]
    /\ UNCHANGED <<routerVars, pollVars, aggVars, callVars>>

(* cleanupStaleLeaders is called and its find is answered *)
LogStaleFind(p, res) ==
    /\ hist' = [hist EXCEPT ![p] = Returned(NewCall(p, "cleanupStaleLeaders", "find"), res)]
    /\ UNCHANGED <<seen, activity, rt, buffer, dispatched, pollVars, aggVars, callVars>>

(* a lookup of the cleanup is answered: whether some leader of the account
   gets a position list without exposure above dust in its market, and
   whether the lookup fails *)
LogStaleLookup(p, answer, res) ==
    /\ LET a == staleScan[p][staleIndex[p]].leaderAddress
           flat == { r \in { staleScan[p][k] : k \in DOMAIN staleScan[p] } :
                       /\ r.leaderAddress = a
                       /\ answer.kind = "list"
                       /\ \A i \in DOMAIN answer.positions :
                             LET pos == answer.positions[i]
                             IN pos.conditionId # r.conditionId \/ pos.size <= 1 }
       IN hist' = [hist EXCEPT ![p] =
                     Returned([hist[p] EXCEPT !.step = "lookup",
                                              !.dueRelease = @ \/ flat # {},
                                              !.failedLookup = @ \/ answer.kind # "list"], res)]
    /\ UNCHANGED <<seen, activity, rt, buffer, dispatched, pollVars, aggVars, callVars>>

(* the first step of a cleanup *)
LogCleanup(p, op, tracked, res) ==
    /\ hist' = [hist EXCEPT ![p] =
                  Returned([NewCall(p, op, "find") EXCEPT !.tracked = tracked], res)]
    /\ UNCHANGED <<seen, activity, rt, buffer, dispatched, pollVars, aggVars, callVars>>

----------------------------------------------------------------------------
(* The executor: readTempTrades, processTradesByLeader, handleAcceptedTrade.
   A trade is named by its _id; its document is activity[id]. *)

TradeIds == 1..MaxTrades

(* USER_ADDRESSES, in the configured order *)
USER_ADDRESSES == <<"A", "b">>

NoTrade ==
    [present |-> FALSE, userAddress |-> "", conditionId |-> "", asset |-> "", side |-> "",
     usdcSize |-> 0, timestamp |-> 0, transactionHash |-> "",
     bot |-> FALSE, botExcutedTime |-> 0]

(* a trade as the feed stores it: not processed yet *)
Trade(a, c, asset, s, u, t, h) ==
    [present |-> TRUE, userAddress |-> a, conditionId |-> c, asset |-> asset, side |-> s,
     usdcSize |-> u, timestamp |-> t, transactionHash |-> h,
     bot |-> FALSE, botExcutedTime |-> 0]

getTradeTimestamp(id) == activity[id].timestamp

Range(q) == { q[i] : i \in DOMAIN q }

(* the sequence q of trade ids reordered by a stable sort; cmp[x, y] is the
   comparator's result for the trades x and y *)
StableSort(q, cmp) ==
    LET n == Len(q)
        perm == CHOOSE f \in [1..n -> 1..n] :
                   /\ \A i, j \in 1..n : i # j => f[i] # f[j]
                   /\ \A i, j \in 1..n :
                         i < j => \/ cmp[q[f[i]], q[f[j]]] < 0
                                  \/ cmp[q[f[i]], q[f[j]]] = 0 /\ f[i] < f[j]
    IN [i \in 1..n |-> q[perm[i]]]

(* the ids of S as a sequence in ascending order of timestamp, then of _id *)
ByTimestampThenId(x, y) ==
    IF getTradeTimestamp(x) # getTradeTimestamp(y)
    THEN getTradeTimestamp(x) - getTradeTimestamp(y)
    ELSE x - y

SeqOfIds(S) ==
    CHOOSE q \in [1..Cardinality(S) -> S] : \A i, j \in DOMAIN q : i < j => q[i] < q[j]

UnprocessedOfAnyMark(a) ==
    StableSort(SeqOfIds({ id \in TradeIds :
                            activity[id].present /\ activity[id].userAddress = a }),
               [x, y \in TradeIds |-> ByTimestampThenId(x, y)])

(* find({type: 'TRADE', bot: false, botExcutedTime: 0, ...}).sort({timestamp: 1})
   on one user's collection *)
UnprocessedOf(a) ==
    StableSort(SeqOfIds({ id \in TradeIds :
                            /\ activity[id].present
                            /\ activity[id].userAddress = a
                            /\ ~activity[id].bot
                            /\ activity[id].botExcutedTime = 0 }),
               [x, y \in TradeIds |-> ByTimestampThenId(x, y)])

sortTradesByTimestamp(x, y) ==
    IF getTradeTimestamp(x) # getTradeTimestamp(y)
    THEN getTradeTimestamp(x) - getTradeTimestamp(y)
    ELSE activity[y].usdcSize - activity[x].usdcSize

sortTradesBySide(x, y) ==
    IF activity[x].side = activity[y].side THEN 0
    ELSE IF activity[x].side = "BUY" THEN -1
    ELSE IF activity[y].side = "BUY" THEN 1
    ELSE 0

(* the leader's trades by timestamp and usdcSize only, whatever their side *)
sortLeaderTradesNoSide(x, y) ==
    IF getTradeTimestamp(x) # getTradeTimestamp(y)
    THEN getTradeTimestamp(x) - getTradeTimestamp(y)
    ELSE activity[y].usdcSize - activity[x].usdcSize

(* the leader's trades by side first, then by usdcSize, whatever their time *)
sortLeaderTradesSideFirst(x, y) ==
    IF sortTradesBySide(x, y) # 0 THEN sortTradesBySide(x, y)
    ELSE activity[y].usdcSize - activity[x].usdcSize

sortLeaderTrades(x, y) ==
    IF getTradeTimestamp(x) # getTradeTimestamp(y)
    THEN getTradeTimestamp(x) - getTradeTimestamp(y)
    ELSE IF sortTradesBySide(x, y) # 0 THEN sortTradesBySide(x, y)
    ELSE activity[y].usdcSize - activity[x].usdcSize

(* the keys of tradeGroups in insertion order *)
RECURSIVE GroupKeys(_)
GroupKeys(trades) ==
    IF trades = <<>> THEN <<>>
    ELSE LET firsts == GroupKeys(SubSeq(trades, 1, Len(trades) - 1))
             c == activity[trades[Len(trades)]].conditionId
         IN IF c \in Range(firsts) THEN firsts ELSE Append(firsts, c)

GroupTrades(trades, c) == SelectSeq(trades, LAMBDA id : activity[id].conditionId = c)

(* a window that slides: it goes on while the next trade is within the
   election window of the trade before it *)
WindowOfSliding(sorted) ==
    LET Chained(k) ==
            \A i \in 2..k :
                getTradeTimestamp(sorted[i]) - getTradeTimestamp(sorted[i - 1])
                    <= LEADER_ELECTION_WINDOW_SECONDS
        n == CHOOSE k \in 1..Len(sorted) :
                Chained(k) /\ (k = Len(sorted) \/ ~Chained(k + 1))
    IN SubSeq(sorted, 1, n)

(* sameTimeTrades: the trades at the head of sortedTrades up to windowEnd *)
WindowOf(sorted) ==
    LET windowEnd == getTradeTimestamp(sorted[1]) + LEADER_ELECTION_WINDOW_SECONDS
    IN SelectSeq(sorted, LAMBDA id : getTradeTimestamp(id) <= windowEnd)

AfterWindow(sorted) == SubSeq(sorted, Len(WindowOf(sorted)) + 1, Len(sorted))

RouterIdle(aggregation) ==
    [pc |-> "idle", aggregation |-> aggregation, batch |-> <<>>, groups |-> <<>>,
     conditionId |-> "", sorted |-> <<>>, window |-> <<>>, leaderAddress |-> "",
     queue |-> <<>>, rest |-> <<>>, code |-> 0, acceptedCount |-> 0, skippedCount |-> 0,
     account |-> 0, allTrades |-> <<>>]

(* the head of the while loop, and of the for loop over the groups around it:
   the next window of this group, or the first of the next group, or the return *)
NextWindow(r) ==
    IF r.sorted # <<>>
    THEN [r EXCEPT !.pc = "window", !.window = WindowOf(r.sorted),
                   !.sorted = AfterWindow(r.sorted), !.leaderAddress = "",
                   !.queue = <<>>, !.rest = <<>>, !.code = 0]
    ELSE IF r.groups # <<>>
    THEN LET c == Head(r.groups)
             sorted == StableSort(GroupTrades(r.batch, c),
                                 [x, y \in TradeIds |-> sortTradesByTimestamp(x, y)])
         IN [r EXCEPT !.pc = "window", !.groups = Tail(r.groups), !.conditionId = c,
                      !.window = WindowOf(sorted), !.sorted = AfterWindow(sorted),
                      !.leaderAddress = "", !.queue = <<>>, !.rest = <<>>, !.code = 0]
    ELSE RouterIdle(r.aggregation)

LeaderTradesAll(window, leaderAddress) == window

(* sameTimeTrades.filter(trade => trade.userAddress.toLowerCase() === leaderAddress) *)
LeaderTrades(window, leaderAddress) ==
    SelectSeq(window, LAMBDA id : ToLowerCase(activity[id].userAddress) = leaderAddress)

(* the skip loop over the whole window, the leader's trades included *)
NonLeaderTradesAll(window, leaderAddress) == window

(* sameTimeTrades.filter(trade => trade.userAddress.toLowerCase() !== leaderAddress) *)
NonLeaderTrades(window, leaderAddress) ==
    SelectSeq(window, LAMBDA id : ToLowerCase(activity[id].userAddress) # leaderAddress)

(* the for loop that marks the trades of queue with code, then the next window *)
SkipLoop(r, queue, code) ==
    IF queue = <<>> THEN NextWindow(r)
    ELSE [r EXCEPT !.pc = "skip", !.queue = queue, !.rest = <<>>, !.code = code]

(* the for loop over leaderTrades, then the one over nonLeaderTrades *)
AcceptLoop(r, queue, rest) ==
    IF queue = <<>> THEN SkipLoop(r, rest, -1)
    ELSE [r EXCEPT !.pc = "accept", !.queue = queue, !.rest = rest]

(* the leader of the window is known *)
WithLeader(r, leaderAddress) ==
    AcceptLoop([r EXCEPT !.leaderAddress = leaderAddress],
               StableSort(LeaderTrades(r.window, leaderAddress),
                          [x, y \in TradeIds |-> sortLeaderTrades(x, y)]),
               NonLeaderTrades(r.window, leaderAddress))

BuyTradesAll(window) == window

(* sameTimeTrades.filter(trade => trade.side === 'BUY') *)
BuyTrades(window) == SelectSeq(window, LAMBDA id : activity[id].side = "BUY")

(* buyTrades.map(trade => ({userAddress, conditionId, side, usdcSize, ...})) *)
CandidatesOf(buyTrades) ==
    [i \in DOMAIN buyTrades |->
       Candidate(activity[buyTrades[i]].userAddress, activity[buyTrades[i]].conditionId,
                 activity[buyTrades[i]].side, activity[buyTrades[i]].usdcSize,
                 activity[buyTrades[i]].timestamp, activity[buyTrades[i]].transactionHash)]

Routed == UNCHANGED <<hist, seen, aggVars, callVars>>
(* the poll loop around the router does not move *)
PollQuiet == UNCHANGED <<loop, clock, isRunning, released>>
Uncaused == UNCHANGED cause
PollIdle == PollQuiet /\ Uncaused
CoordinatorIdle == UNCHANGED <<leaders, pc, estWinner, unfTracked, staleVars>>

(* the feed stores a trade (the next _id), at any moment *)
Observe(id, trade) ==
    /\ ~activity[id].present
    /\ \A j \in TradeIds : j < id => activity[j].present
    /\ activity' = [activity EXCEPT ![id] = trade]
    /\ UNCHANGED <<rt, buffer, dispatched>>
    /\ CoordinatorIdle /\ Routed

(* readTempTrades: the find on the collection of the next account is
   answered and its trades are pushed on allTrades; after the last account
   the trades are returned and, when there are any, processTradesByLeader is
   entered: the groups, the first window *)
ReadNext ==
    \E allTrades \in {rt.allTrades \o UnprocessedOf(USER_ADDRESSES[rt.account + 1])} :
        IF rt.account + 1 < Len(USER_ADDRESSES)
        THEN rt' = [rt EXCEPT !.pc = "find", !.account = @ + 1, !.allTrades = allTrades]
        ELSE IF allTrades = <<>> THEN rt' = RouterIdle(rt.aggregation)
        ELSE \E r \in {[RouterIdle(rt.aggregation) EXCEPT !.batch = allTrades,
                                                          !.groups = GroupKeys(allTrades)]} :
                rt' = NextWindow(r)

(* one find of the readTempTrades of an iteration of the poll loop *)
RouteStart ==
    /\ rt.pc \in {"idle", "find"}
    /\ ReadNext
    /\ UNCHANGED <<activity, buffer, dispatched>>
    /\ CoordinatorIdle /\ Routed

(* await getActiveLeader(conditionId) at the head of a window *)
RouteWindow ==
    /\ rt.pc = "window"
    /\ rt' = IF HasActiveLeader(rt.conditionId)
             THEN WithLeader(rt, ToLowerCase(getActiveLeader(rt.conditionId).leaderAddress))
             ELSE IF BuyTrades(rt.window) = <<>>
                  THEN SkipLoop(rt, rt.window, -2)
                  ELSE [rt EXCEPT !.pc = "establish"]
    /\ UNCHANGED <<activity, buffer, dispatched>>
    /\ CoordinatorIdle /\ Routed

(* establishLeader(candidates) is entered *)
RouteEstablishCall(res) ==
    /\ rt.pc = "establish"
    /\ EstablishCall("p1", CandidatesOf(BuyTrades(rt.window)), res)
    /\ rt' = [rt EXCEPT !.pc = "establishing"]
    /\ UNCHANGED <<activity, buffer, dispatched>>
    /\ Routed

(* const winner = await establishLeader(candidates), its create *)
RouteEstablishCreate(res) ==
    /\ rt.pc = "establishing"
    /\ EstablishCreate("p1", res)
    /\ rt' = IF res.kind = "cand"
             THEN WithLeader(rt, ToLowerCase(res.cand.userAddress))
             ELSE rt
    /\ UNCHANGED <<activity, buffer, dispatched>>
    /\ Routed

(* its catch branch; without a winner the router reads the leader itself *)
RouteEstablishReread(res) ==
    /\ rt.pc = "establishing"
    /\ EstablishReread("p1", res)
    /\ rt' = IF res.kind = "cand"
             THEN WithLeader(rt, ToLowerCase(res.cand.userAddress))
             ELSE [rt EXCEPT !.pc = "reread"]
    /\ UNCHANGED <<activity, buffer, dispatched>>
    /\ Routed

(* activeLeader = await getActiveLeader(conditionId) after a null winner *)
RouteReread ==
    /\ rt.pc = "reread"
    /\ rt' = IF HasActiveLeader(rt.conditionId)
             THEN WithLeader(rt, ToLowerCase(getActiveLeader(rt.conditionId).leaderAddress))
             ELSE SkipLoop(rt, rt.window, -1)
    /\ UNCHANGED <<activity, buffer, dispatched>>
    /\ CoordinatorIdle /\ Routed

(* acceptedCount += 1; await recordLeaderTrade(conditionId, userAddress, timestamp) *)
RouteRecord ==
    /\ rt.pc = "accept"
    /\ LET id == Head(rt.queue)
       IN recordLeaderTrade("p1", rt.conditionId, activity[id].userAddress,
                            activity[id].timestamp, RetVoid)
    /\ rt' = [rt EXCEPT !.pc = "handle", !.acceptedCount = @ + 1]
    /\ UNCHANGED <<activity, buffer, dispatched>>
    /\ Routed

(* a buffered trade that keeps its stored mark *)
markTradeBufferedNowhere(id) == activity

(* {_id, bot: false, botExcutedTime: 0} -> botExcutedTime: BOT_EXECUTED_TIME_BUFFERED *)
markTradeBuffered(id) ==
    IF ~activity[id].bot /\ activity[id].botExcutedTime = 0
    THEN [activity EXCEPT ![id].botExcutedTime = BOT_EXECUTED_TIME_BUFFERED]
    ELSE activity

(* tradeAggregationBuffer is a Map: buffer holds its entries in insertion
   order, each with its key, its trades, their total and Date.now() at its
   creation *)

(* the key userAddress:conditionId:asset:side *)
getAggregationKey(id) ==
    <<activity[id].userAddress, activity[id].conditionId, activity[id].asset, activity[id].side>>

addToAggregationBufferRestart(id) ==
    LET key == getAggregationKey(id)
    IN IF \E i \in DOMAIN buffer : buffer[i].key = key
       THEN LET i == CHOOSE j \in DOMAIN buffer : buffer[j].key = key
            IN IF id \in Range(buffer[i].trades)
               THEN buffer
               ELSE [buffer EXCEPT ![i].trades = Append(@, id),
                                   ![i].totalUsdcSize = @ + activity[id].usdcSize,
                                   ![i].firstTradeTime = clock]
       ELSE Append(buffer, [key |-> key, trades |-> <<id>>,
                            totalUsdcSize |-> activity[id].usdcSize,
                            firstTradeTime |-> clock])

(* an existing entry gets the trade and its size; firstTradeTime is set when
   the entry is created and by nothing else *)
addToAggregationBuffer(id) ==
    LET key == getAggregationKey(id)
    IN IF \E i \in DOMAIN buffer : buffer[i].key = key
       THEN LET i == CHOOSE j \in DOMAIN buffer : buffer[j].key = key
            IN IF id \in Range(buffer[i].trades)
               THEN buffer
               ELSE [buffer EXCEPT ![i].trades = Append(@, id),
                                   ![i].totalUsdcSize = @ + activity[id].usdcSize]
       ELSE Append(buffer, [key |-> key, trades |-> <<id>>,
                            totalUsdcSize |-> activity[id].usdcSize,
                            firstTradeTime |-> clock])

(* the leader loop goes on with the next trade *)
AfterAccepted(r) == AcceptLoop(r, Tail(r.queue), r.rest)

BelowMinimumInclusive(id) ==
    activity[id].side = "BUY" /\ activity[id].usdcSize <= TRADE_AGGREGATION_MIN_TOTAL_USD

(* trade.side === 'BUY' && trade.usdcSize < TRADE_AGGREGATION_MIN_TOTAL_USD *)
BelowMinimum(id) ==
    activity[id].side = "BUY" /\ activity[id].usdcSize < TRADE_AGGREGATION_MIN_TOTAL_USD

(* handleAcceptedTrade: a small BUY is buffered when aggregation is enabled;
   any other trade goes to doTrading, which first marks it in progress *)
RouteHandle ==
    /\ rt.pc = "handle"
    /\ LET id == Head(rt.queue)
       IN IF rt.aggregation /\ BelowMinimum(id)
          THEN /\ activity' = markTradeBuffered(id)
               /\ buffer' = addToAggregationBuffer(id)
               /\ rt' = AfterAccepted(rt)
          ELSE /\ activity' = [activity EXCEPT ![id].botExcutedTime = 1]
               /\ rt' = [rt EXCEPT !.pc = "positions"]
               /\ UNCHANGED buffer
    /\ UNCHANGED dispatched
    /\ CoordinatorIdle /\ Routed

(* doTrading: await fetchData(positions of PROXY_WALLET) *)
RoutePositions ==
    /\ rt.pc = "positions"
    /\ rt' = [rt EXCEPT !.pc = "userPositions"]
    /\ UNCHANGED <<activity, buffer, dispatched>>
    /\ CoordinatorIdle /\ Routed

(* doTrading: await fetchData(positions of trade.userAddress) *)
RouteUserPositions ==
    /\ rt.pc = "userPositions"
    /\ rt' = [rt EXCEPT !.pc = "balance"]
    /\ UNCHANGED <<activity, buffer, dispatched>>
    /\ CoordinatorIdle /\ Routed

(* doTrading: await getMyBalance(PROXY_WALLET) *)
RouteBalance ==
    /\ rt.pc = "balance"
    /\ rt' = [rt EXCEPT !.pc = "order"]
    /\ UNCHANGED <<activity, buffer, dispatched>>
    /\ CoordinatorIdle /\ Routed

(* doTrading: await postOrder(...) for the trade *)
RouteOrder ==
    /\ rt.pc = "order"
    /\ dispatched' = Append(dispatched, Head(rt.queue))
    /\ rt' = AfterAccepted(rt)
    /\ UNCHANGED <<activity, buffer>>
    /\ CoordinatorIdle /\ Routed

(* {_id} -> bot: true, botExcutedTime: reasonCode *)
markTradeSkipped(id, reasonCode) ==
    [activity EXCEPT ![id].bot = TRUE, ![id].botExcutedTime = reasonCode]

(* skippedCount += 1; await markTradeSkipped(trade, code) *)
RouteSkip ==
    /\ rt.pc = "skip"
    /\ activity' = markTradeSkipped(Head(rt.queue), rt.code)
    /\ rt' = SkipLoop([rt EXCEPT !.skippedCount = @ + 1], Tail(rt.queue), rt.code)
    /\ UNCHANGED <<buffer, dispatched>>
    /\ CoordinatorIdle /\ Routed

----------------------------------------------------------------------------
(* The poll loop of tradeExecutor: readTempTrades, processTradesByLeader,
   getReadyAggregatedTrades, doAggregatedTrading, the stop flag.
   loop.pc is where the loop is; while it is "route" the router above runs
   processTradesByLeader and is back at "idle" when that call returned. *)

NoLeaderCache == [c \in Markets |-> [cached |-> FALSE, leaderAddress |-> ""]]

LoopAt(at) ==
    [pc |-> at, now |-> 0, leaderCache |-> NoLeaderCache, entries |-> <<>>,
     mode |-> "", marks |-> <<>>, ready |-> <<>>]

(* windowMs *)
WindowMs == TRADE_AGGREGATION_WINDOW_SECONDS * 1000

(* the buffer entry of a key, and the buffer without it *)
EntryOf(key) == buffer[CHOOSE i \in DOMAIN buffer : buffer[i].key = key]
DeleteKey(key) == SelectSeq(buffer, LAMBDA e : e.key # key)

(* the keys of tradeAggregationBuffer.entries() *)
BufferKeys == [i \in DOMAIN buffer |-> buffer[i].key]

(* doAggregatedTrading is entered with the ready list, or the iteration ends *)
AfterScan(l) ==
    IF l.ready = <<>> THEN LoopAt("check")
    ELSE [l EXCEPT !.pc = "aggMark", !.entries = <<>>, !.mode = "", !.marks = l.ready[1].trades]

(* the for loop over the buffer goes on with the entries left *)
NextEntry(l, entries) ==
    IF entries = <<>> THEN AfterScan(l)
    ELSE [l EXCEPT !.pc = "scan", !.entries = entries, !.mode = "", !.marks = <<>>]

(* getLeaderAddress: the cached address, else getActiveLeader's, "" for null *)
LeaderAddressOf(cache, c) ==
    IF cache[c].cached THEN cache[c].leaderAddress
    ELSE IF HasActiveLeader(c) THEN ToLowerCase(getActiveLeader(c).leaderAddress)
    ELSE ""

ElapsedAfter(now, agg) == now - agg.firstTradeTime > WindowMs

ElapsedNever(now, agg) == FALSE

(* timeElapsed >= windowMs *)
Elapsed(now, agg) == now - agg.firstTradeTime >= WindowMs

LeaderChangedNever(leaderAddress, agg) == FALSE

(* !leaderAddress || leaderAddress !== aggLeader *)
LeaderChanged(leaderAddress, agg) ==
    leaderAddress = "" \/ leaderAddress # ToLowerCase(agg.key[1])

PollHeadForever ==
    /\ loop.pc = "head"
    /\ loop' = LoopAt("read")
    /\ UNCHANGED <<clock, isRunning, released, routerVars>>
    /\ CoordinatorIdle /\ Routed

(* while (isRunning) *)
PollHead ==
    /\ loop.pc = "head"
    /\ loop' = IF isRunning THEN LoopAt("read") ELSE LoopAt("stopped")
    /\ UNCHANGED <<clock, isRunning, released, routerVars>>
    /\ CoordinatorIdle /\ Routed

(* const rawTrades = await readTempTrades(): one find of it is answered;
   after the last one, with trades, processTradesByLeader is entered *)
PollRead ==
    /\ loop.pc = "read"
    /\ rt.pc \in {"idle", "find"}
    /\ ReadNext
    /\ loop' = IF rt'.pc = "find" THEN loop ELSE LoopAt("route")
    /\ UNCHANGED <<clock, isRunning, released, activity, buffer, dispatched>>
    /\ CoordinatorIdle /\ Routed

(* processTradesByLeader returned, or there was no trade: with aggregation
   enabled getReadyAggregatedTrades is entered (now, an empty leaderCache,
   the entries of the buffer), else the iteration ends *)
PollRouted ==
    /\ loop.pc = "route"
    /\ rt.pc = "idle"
    /\ loop' = IF rt.aggregation
               THEN NextEntry([LoopAt("scan") EXCEPT !.now = clock], BufferKeys)
               ELSE LoopAt("check")
    /\ UNCHANGED <<clock, isRunning, released, routerVars>>
    /\ CoordinatorIdle /\ Routed

(* one entry of the buffer: its leader is looked up (once per conditionId and
   scan); an entry of another account is dropped trade by trade; one whose
   window has passed is pushed on ready when it reaches the minimum and has
   its trades marked otherwise; any other entry is left as it is *)
ScanEntry ==
    /\ loop.pc = "scan"
    /\ LET key == Head(loop.entries)
           agg == EntryOf(key)
           leaderAddress == LeaderAddressOf(loop.leaderCache, key[2])
           l == [loop EXCEPT !.leaderCache[key[2]] =
                                [cached |-> TRUE, leaderAddress |-> leaderAddress]]
       IN IF LeaderChanged(leaderAddress, agg)
          THEN /\ loop' = [l EXCEPT !.pc = "scanMark", !.mode = "skip", !.marks = agg.trades]
               /\ UNCHANGED buffer
          ELSE IF Elapsed(loop.now, agg)
          THEN IF agg.totalUsdcSize >= TRADE_AGGREGATION_MIN_TOTAL_USD
               THEN /\ loop' = NextEntry([l EXCEPT !.ready = Append(@, agg)],
                                         Tail(loop.entries))
                    /\ buffer' = DeleteKey(key)
               ELSE /\ loop' = [l EXCEPT !.pc = "scanMark", !.mode = "processed",
                                         !.marks = agg.trades]
                    /\ UNCHANGED buffer
          ELSE /\ loop' = NextEntry(l, Tail(loop.entries))
               /\ UNCHANGED buffer
    /\ UNCHANGED <<clock, isRunning, released, activity, rt, dispatched>>
    /\ CoordinatorIdle /\ Routed

(* updateOne({_id}, {bot: true}) *)
markTradeProcessed(id) == [activity EXCEPT ![id].bot = TRUE]

(* one trade of the entry is marked: markTradeSkipped(trade, -1) for a
   dropped entry, bot: true for one below the minimum; after the last one the
   key is deleted *)
ScanMark ==
    /\ loop.pc = "scanMark"
    /\ LET id == Head(loop.marks)
       IN /\ activity' = IF loop.mode = "skip" THEN markTradeSkipped(id, -1)
                         ELSE markTradeProcessed(id)
          /\ IF Tail(loop.marks) = <<>>
             THEN /\ buffer' = DeleteKey(Head(loop.entries))
                  /\ loop' = NextEntry(loop, Tail(loop.entries))
             ELSE /\ loop' = [loop EXCEPT !.marks = Tail(@)]
                  /\ UNCHANGED buffer
    /\ UNCHANGED <<clock, isRunning, released, rt, dispatched>>
    /\ CoordinatorIdle /\ Routed

(* doAggregatedTrading: updateOne({_id}, {$set: {botExcutedTime: 1}}) for one
   trade of the aggregation *)
AggMark ==
    /\ loop.pc = "aggMark"
    /\ activity' = [activity EXCEPT ![Head(loop.marks)].botExcutedTime = 1]
    /\ loop' = IF Tail(loop.marks) = <<>>
               THEN [loop EXCEPT !.pc = "aggPositions", !.marks = <<>>]
               ELSE [loop EXCEPT !.marks = Tail(@)]
    /\ UNCHANGED <<clock, isRunning, released, rt, buffer, dispatched>>
    /\ CoordinatorIdle /\ Routed

(* doAggregatedTrading: await fetchData(positions of PROXY_WALLET) *)
AggPositions ==
    /\ loop.pc = "aggPositions"
    /\ loop' = [loop EXCEPT !.pc = "aggUserPositions"]
    /\ UNCHANGED <<clock, isRunning, released, routerVars>>
    /\ CoordinatorIdle /\ Routed

(* doAggregatedTrading: await fetchData(positions of agg.userAddress) *)
AggUserPositions ==
    /\ loop.pc = "aggUserPositions"
    /\ loop' = [loop EXCEPT !.pc = "aggBalance"]
    /\ UNCHANGED <<clock, isRunning, released, routerVars>>
    /\ CoordinatorIdle /\ Routed

(* doAggregatedTrading: await getMyBalance(PROXY_WALLET) *)
AggBalance ==
    /\ loop.pc = "aggBalance"
    /\ loop' = [loop EXCEPT !.pc = "aggOrder"]
    /\ UNCHANGED <<clock, isRunning, released, routerVars>>
    /\ CoordinatorIdle /\ Routed

(* doAggregatedTrading: await postOrder(...) for the synthetic trade of the
   aggregation *)
AggOrder ==
    /\ loop.pc = "aggOrder"
    /\ released' = Append(released, loop.ready[1])
    /\ loop' = [loop EXCEPT !.pc = "aggDone"]
    /\ UNCHANGED <<clock, isRunning, routerVars>>
    /\ CoordinatorIdle /\ Routed

(* updateMany({_id: {$in: ids}}, {$set: {bot: true}}), then the next
   aggregation *)
AggDone ==
    /\ loop.pc = "aggDone"
    /\ activity' = [id \in TradeIds |->
                      IF id \in Range(loop.ready[1].trades)
                      THEN [activity[id] EXCEPT !.bot = TRUE]
                      ELSE activity[id]]
    /\ loop' = AfterScan([loop EXCEPT !.ready = Tail(@)])
    /\ UNCHANGED <<clock, isRunning, released, rt, buffer, dispatched>>
    /\ CoordinatorIdle /\ Routed

(* if (!isRunning) break; await new Promise(resolve => setTimeout(resolve, 300)) *)
PollCheck ==
    /\ loop.pc = "check"
    /\ loop' = IF isRunning THEN LoopAt("head") ELSE LoopAt("stopped")
    /\ UNCHANGED <<clock, isRunning, released, routerVars>>
    /\ CoordinatorIdle /\ Routed

stopTradeExecutor ==
    /\ isRunning
    /\ isRunning' = FALSE
    /\ UNCHANGED <<loop, clock, released, routerVars>>
    /\ CoordinatorIdle /\ Routed

(* time passes: Date.now() grows *)
Tick ==
    /\ clock < MaxClock * 1000
    /\ clock' = clock + 1000
    /\ UNCHANGED <<loop, isRunning, released, routerVars>>
    /\ CoordinatorIdle /\ Routed

----------------------------------------------------------------------------

(* no pure function is being called *)
NoArguments == [function |-> ""]
NotReturned == [returned |-> FALSE]

Init ==
    /\ leaders = {}
    /\ pc = [p \in Procs |-> "idle"]
    /\ estWinner = [p \in Procs |-> NoCandidate]
    /\ unfTracked = [p \in Procs |-> {}]
    /\ staleCutoff = [p \in Procs |-> 0]
    /\ staleScan = [p \in Procs |-> <<>>]
    /\ staleIndex = [p \in Procs |-> 0]
    /\ staleCache = [p \in Procs |-> NoCache]
    /\ staleRelease = [p \in Procs |-> {}]
    /\ activity = [id \in TradeIds |-> NoTrade]
    /\ rt = RouterIdle(FALSE)
    /\ buffer = <<>>
    /\ dispatched = <<>>
    /\ loop = LoopAt("head")
    /\ clock = 0
    /\ isRunning = TRUE
    /\ released = <<>>
    /\ rows = <<>>
    /\ results = <<>>
    /\ args = NoArguments
    /\ ret = NotReturned
    /\ cause = [id \in TradeIds |-> ""]
    /\ hist = [p \in Procs |-> NoCall]
    /\ seen = [h \in Hashes |-> {}]

(* the executor configured with or without TRADE_AGGREGATION_ENABLED *)
InitRoute ==
    /\ leaders = {}
    /\ pc = [p \in Procs |-> "idle"]
    /\ estWinner = [p \in Procs |-> NoCandidate]
    /\ unfTracked = [p \in Procs |-> {}]
    /\ staleCutoff = [p \in Procs |-> 0]
    /\ staleScan = [p \in Procs |-> <<>>]
    /\ staleIndex = [p \in Procs |-> 0]
    /\ staleCache = [p \in Procs |-> NoCache]
    /\ staleRelease = [p \in Procs |-> {}]
    /\ activity = [id \in TradeIds |-> NoTrade]
    /\ \E aggregation \in BOOLEAN : rt = RouterIdle(aggregation)
    /\ buffer = <<>>
    /\ dispatched = <<>>
    /\ loop = LoopAt("head")
    /\ clock = 0
    /\ isRunning = TRUE
    /\ released = <<>>
    /\ rows = <<>>
    /\ results = <<>>
    /\ args = NoArguments
    /\ ret = NotReturned
    /\ cause = [id \in TradeIds |-> ""]
    /\ hist = [p \in Procs |-> NoCall]
    /\ seen = [h \in Hashes |-> {}]

(* what a step may return *)
CreateResults(p) == {RetPending, RetCand(estWinner[p])}
RereadResults == {RetNull} \cup { RetCand(CandidateOfLeader(r)) : r \in leaders }
BoolResults == {RetBool(TRUE), RetBool(FALSE)}
CountResults == {RetPending} \cup { RetCount(n) : n \in 0..Cardinality(leaders) }

(* Every operation of every coordinator instance, interleaved *)
Next ==
    \/ \E p \in Procs, cands \in CandidateLists(Markets, {1}, {0}), res \in {RetNull, RetPending} :
         EstablishCall(p, cands, res) /\ Unlogged
    \/ \E p \in Procs : \E res \in CreateResults(p) : EstablishCreate(p, res) /\ Unlogged
    \/ \E p \in Procs, res \in RereadResults : EstablishReread(p, res) /\ Unlogged
    \/ \E p \in Procs, c \in Markets, a \in InputAddresses, res \in BoolResults :
         releaseLeadership(p, c, a, res) /\ Unlogged
    \/ \E p \in Procs, c \in Markets, a \in InputAddresses, t \in {0, 3600} :
         recordLeaderTrade(p, c, a, t, RetVoid) /\ Unlogged
    \/ \E p \in Procs, tracked \in TrackedLists, res \in CountResults :
         UnfollowedFind(p, tracked, res) /\ Unlogged
    \/ \E p \in Procs, res \in CountResults : UnfollowedUpdate(p, res) /\ Unlogged
    \/ \E p \in Procs, nowMs \in FewNowMs, res \in CountResults :
         StaleFind(p, nowMs, 1, res) /\ Unlogged
    \/ \E p \in Procs, answer \in FewFetchAnswers, res \in CountResults :
         StaleLookup(p, answer, res) /\ Unlogged
    \/ \E p \in Procs, res \in CountResults : StaleUpdate(p, res) /\ Unlogged

Spec == Init /\ [][Next]_vars

(* One coordinator instance calling establishLeader and releaseLeadership on
   one instrument, every call and its result recorded *)
NextEst ==
    \/ \E cands \in CandidateLists({"m1"}, UsdcSizes, {0}), res \in {RetNull, RetPending} :
         EstablishCall("p1", cands, res) /\ LogEstablishCall("p1", cands, res)
    \/ \E res \in CreateResults("p1") :
         EstablishCreate("p1", res) /\ LogStep("p1", "create", res)
    \/ \E res \in RereadResults : EstablishReread("p1", res) /\ LogStep("p1", "reread", res)
    \/ \E c \in Markets, a \in InputAddresses, res \in BoolResults :
         releaseLeadership("p1", c, a, res) /\ LogRelease("p1", c, a, res)

SpecEst == Init /\ [][NextEst]_vars

(* The trades the feed may store *)
RouteTimestamps == {0, LEADER_ELECTION_WINDOW_SECONDS + 1}
RouteSizes == {TRADE_AGGREGATION_MIN_TOTAL_USD - 1, TRADE_AGGREGATION_MIN_TOTAL_USD}
(* the trades of one timestamp settle in one transaction *)
HashOfTrade(t) == IF t = 0 THEN "h1" ELSE "h2"
(* the outcome tokens the trades of an instrument name: a BUY of account A
   below the minimum, whose token is part of its aggregation key, is of
   either token *)
AssetsOf(a, s, u) ==
    IF a = "A" /\ s = "BUY" /\ u < TRADE_AGGREGATION_MIN_TOTAL_USD
    THEN {"t1", "t2"}
    ELSE {"t1"}
ObservedTrades ==
    UNION { { Trade(a, "m1", asset, s, u, t, HashOfTrade(t)) : asset \in AssetsOf(a, s, u) } :
              a \in CandidateAddresses, s \in Sides, u \in RouteSizes, t \in RouteTimestamps }

(* One call of processTradesByLeader on trades the feed has stored before:
   trades of both accounts on one instrument at timestamps inside and outside
   one election window, and BUYs of one account on a second instrument; or
   BUYs of one account on one instrument, one for every id, at timestamp 0
   and at the end of its election window, one, and two time units later *)
OrderTimestamps == 0..(LEADER_ELECTION_WINDOW_SECONDS + 1)
WindowTimestamps ==
    {0} \cup LEADER_ELECTION_WINDOW_SECONDS..(2 * LEADER_ELECTION_WINDOW_SECONDS)
WindowTrades ==
    { Trade("A", "m1", "t1", "BUY", u, t, HashOfTrade(t)) :
        u \in RouteSizes, t \in WindowTimestamps }
OrderTrades ==
    UNION { { Trade(a, "m1", asset, s, u, t, HashOfTrade(t)) : asset \in AssetsOf(a, s, u) } :
              a \in CandidateAddresses, s \in Sides, u \in RouteSizes, t \in OrderTimestamps }
    \cup { Trade("A", "m2", "t1", "BUY", TRADE_AGGREGATION_MIN_TOTAL_USD, t, HashOfTrade(t)) :
              t \in {0, LEADER_ELECTION_WINDOW_SECONDS + 1} }

InitOrder ==
    /\ leaders = {}
    /\ pc = [p \in Procs |-> "idle"]
    /\ estWinner = [p \in Procs |-> NoCandidate]
    /\ unfTracked = [p \in Procs |-> {}]
    /\ staleCutoff = [p \in Procs |-> 0]
    /\ staleScan = [p \in Procs |-> <<>>]
    /\ staleIndex = [p \in Procs |-> 0]
    /\ staleCache = [p \in Procs |-> NoCache]
    /\ staleRelease = [p \in Procs |-> {}]
    /\ activity \in
          { [id \in TradeIds |-> IF id < MaxTrades THEN f[id] ELSE NoTrade] :
              f \in [1..(MaxTrades - 1) -> OrderTrades] }
          \cup [TradeIds -> WindowTrades]
    /\ rt = RouterIdle(TRUE)
    /\ buffer = <<>>
    /\ dispatched = <<>>
    /\ loop = LoopAt("head")
    /\ clock = 0
    /\ isRunning = TRUE
    /\ released = <<>>
    /\ rows = <<>>
    /\ results = <<>>
    /\ args = NoArguments
    /\ ret = NotReturned
    /\ cause = [id \in TradeIds |-> ""]
    /\ hist = [p \in Procs |-> NoCall]
    /\ seen = [h \in Hashes |-> {}]

NextOrder ==
    \/ RouteStart /\ PollIdle
    \/ RouteWindow /\ PollIdle
    \/ \E res \in {RetNull, RetPending} : RouteEstablishCall(res) /\ PollIdle
    \/ \E res \in CreateResults("p1") : RouteEstablishCreate(res) /\ PollIdle
    \/ \E res \in RereadResults : RouteEstablishReread(res) /\ PollIdle
    \/ RouteReread /\ PollIdle
    \/ RouteRecord /\ PollIdle
    \/ RouteHandle /\ PollIdle
    \/ RoutePositions /\ PollIdle
    \/ RouteUserPositions /\ PollIdle
    \/ RouteBalance /\ PollIdle
    \/ RouteOrder /\ PollIdle
    \/ RouteSkip /\ PollIdle

SpecOrder == InitOrder /\ [][NextOrder]_vars

(* why a trade is finalized without an order: by the skip loops of
   processTradesByLeader and by the marking loops of the buffer scan *)
LogSkip ==
    cause' = [cause EXCEPT ![Head(rt.queue)] =
                IF rt.code = -2 THEN "no eligible leader candidate"
                ELSE IF rt.leaderAddress = "" THEN "leader not established"
                ELSE "not leader"]

LogScanMark ==
    cause' = [cause EXCEPT ![Head(loop.marks)] =
                IF loop.mode = "skip" THEN "leader changed during buffering"
                ELSE "below minimum"]

(* the trades the feed stores for the poll loop *)
LoopTradeIds == {1, 2}

(* The poll loop of one executor, with and without aggregation: trades arrive,
   time passes, leadership is released at any moment and the executor is
   stopped at any moment *)
NextLoop ==
    \/ \E id \in LoopTradeIds, trade \in ObservedTrades : Observe(id, trade) /\ PollIdle
    \/ PollHead /\ Uncaused
    \/ PollRead /\ Uncaused
    \/ PollRouted /\ Uncaused
    \/ RouteWindow /\ PollIdle
    \/ \E res \in {RetNull, RetPending} : RouteEstablishCall(res) /\ PollIdle
    \/ \E res \in CreateResults("p1") : RouteEstablishCreate(res) /\ PollIdle
    \/ \E res \in RereadResults : RouteEstablishReread(res) /\ PollIdle
    \/ RouteReread /\ PollIdle
    \/ RouteRecord /\ PollIdle
    \/ RouteHandle /\ PollIdle
    \/ RoutePositions /\ PollIdle
    \/ RouteUserPositions /\ PollIdle
    \/ RouteBalance /\ PollIdle
    \/ RouteOrder /\ PollIdle
    \/ RouteSkip /\ PollQuiet /\ LogSkip
    \/ ScanEntry /\ Uncaused
    \/ ScanMark /\ LogScanMark
    \/ AggMark /\ Uncaused
    \/ AggPositions /\ Uncaused
    \/ AggUserPositions /\ Uncaused
    \/ AggBalance /\ Uncaused
    \/ AggOrder /\ Uncaused
    \/ AggDone /\ Uncaused
    \/ PollCheck /\ Uncaused
    \/ stopTradeExecutor /\ Uncaused
    \/ Tick /\ Uncaused
    \/ \E c \in {"m1"}, a \in CandidateAddresses, res \in BoolResults :
         releaseLeadership("p2", c, a, res) /\ Unlogged

SpecLoop == InitRoute /\ [][NextLoop]_vars

(* the steps of the executor itself: every await of the loop returns and the
   loop goes on *)
ExecutorStep ==
    \/ PollHead /\ Uncaused
    \/ PollRead /\ Uncaused
    \/ PollRouted /\ Uncaused
    \/ RouteWindow /\ PollIdle
    \/ \E res \in {RetNull, RetPending} : RouteEstablishCall(res) /\ PollIdle
    \/ \E res \in CreateResults("p1") : RouteEstablishCreate(res) /\ PollIdle
    \/ \E res \in RereadResults : RouteEstablishReread(res) /\ PollIdle
    \/ RouteReread /\ PollIdle
    \/ RouteRecord /\ PollIdle
    \/ RouteHandle /\ PollIdle
    \/ RoutePositions /\ PollIdle
    \/ RouteUserPositions /\ PollIdle
    \/ RouteBalance /\ PollIdle
    \/ RouteOrder /\ PollIdle
    \/ RouteSkip /\ PollQuiet /\ LogSkip
    \/ ScanEntry /\ Uncaused
    \/ ScanMark /\ LogScanMark
    \/ AggMark /\ Uncaused
    \/ AggPositions /\ Uncaused
    \/ AggUserPositions /\ Uncaused
    \/ AggBalance /\ Uncaused
    \/ AggOrder /\ Uncaused
    \/ AggDone /\ Uncaused
    \/ PollCheck /\ Uncaused

(* the trades stored while the executor is being stopped: small trades of
   one timestamp by two accounts *)
StopTrades ==
    UNION { { Trade(a, "m1", asset, s, TRADE_AGGREGATION_MIN_TOTAL_USD - 1, 0, HashOfTrade(0)) :
                asset \in AssetsOf(a, s, TRADE_AGGREGATION_MIN_TOTAL_USD - 1) } :
              a \in {"A", "b"}, s \in Sides }

NextStop ==
    \/ \E id \in LoopTradeIds, trade \in StopTrades : Observe(id, trade) /\ PollIdle
    \/ ExecutorStep
    \/ stopTradeExecutor /\ Uncaused
    \/ Tick /\ Uncaused
    \/ \E res \in BoolResults : releaseLeadership("p2", "m1", "a", res) /\ Unlogged

(* the poll loop when every store operation, request and timer it awaits
   completes *)
SpecStop == InitRoute /\ [][NextStop]_vars /\ WF_vars(ExecutorStep)

NextLive ==
    \/ \E id \in LoopTradeIds, trade \in StopTrades : Observe(id, trade) /\ PollIdle
    \/ ExecutorStep
    \/ Tick /\ Uncaused
    \/ \E res \in BoolResults : releaseLeadership("p2", "m1", "a", res) /\ Unlogged

(* the poll loop that is never stopped: every await completes, and Date.now()
   grows (up to the last instant of the model) *)
SpecLive ==
    InitRoute /\ [][NextLive]_vars /\ WF_vars(ExecutorStep) /\ WF_vars(Tick /\ Uncaused)

(* Two instances call establishLeader and releaseLeadership concurrently,
   every call recorded with the calls it overlapped *)
NextRace ==
    \/ \E p \in Procs, a \in CandidateAddresses, c \in Markets :
       \E cands \in FoundingLists(a, c, {0}), res \in {RetNull, RetPending} :
         EstablishCall(p, cands, res) /\ LogEstablishRace(p, MarketOf(cands), res)
    \/ \E p \in Procs : \E res \in CreateResults(p) :
         EstablishCreate(p, res) /\ LogStep(p, "create", res)
    \/ \E p \in Procs, res \in RereadResults :
         EstablishReread(p, res) /\ LogStep(p, "reread", res)
    \/ \E p \in Procs, c \in Markets, a \in InputAddresses, res \in BoolResults :
         releaseLeadership(p, c, a, res) /\ LogOther(p, "releaseLeadership", res)

SpecRace == Init /\ [][NextRace]_vars

(* establishLeader calls of two instances for one instrument over a store
   that may reject a create or a read, and releases between them *)
NextFail ==
    \/ \E p \in Procs, a \in CandidateAddresses, c \in {"m1"} :
       \E cands \in FoundingLists(a, c, {0}), res \in {RetNull, RetPending} :
         EstablishCall(p, cands, res) /\ LogEstablishRace(p, MarketOf(cands), res)
    \/ \E p \in Procs : \E res \in CreateResults(p) :
         EstablishCreate(p, res) /\ LogStep(p, "create", res)
    \/ \E p \in Procs : EstablishCreateFails(p, RetError) /\ LogStep(p, "create", RetError)
    \/ \E p \in Procs, res \in RereadResults :
         EstablishReread(p, res) /\ LogStep(p, "reread", res)
    \/ \E p \in Procs : EstablishRereadFails(p, RetError) /\ LogStep(p, "reread", RetError)
    \/ \E p \in Procs, c \in {"m1"}, a \in CandidateAddresses, res \in BoolResults :
         releaseLeadership(p, c, a, res) /\ LogOther(p, "releaseLeadership", res)

SpecFail == Init /\ [][NextFail]_vars

(* One instance runs cleanupStaleLeaders while another establishes leaders,
   records their trades and releases them *)
NextStale ==
    \/ \E cands \in FoundingLists("A", "m1", {0}) \cup FoundingLists("b", "m2", {0}),
          res \in {RetNull, RetPending} :
         EstablishCall("p2", cands, res) /\ Unlogged
    \/ \E res \in CreateResults("p2") : EstablishCreate("p2", res) /\ Unlogged
    \/ \E res \in RereadResults : EstablishReread("p2", res) /\ Unlogged
    \/ \E c \in Markets, a \in CandidateAddresses, t \in Timestamps :
         recordLeaderTrade("p2", c, a, t, RetVoid) /\ Unlogged
    \/ \E c \in Markets, a \in CandidateAddresses, res \in BoolResults :
         releaseLeadership("p2", c, a, res) /\ Unlogged
    \/ \E nowMs \in NowMs, res \in CountResults :
         StaleFind("p1", nowMs, 1, res) /\ LogStaleFind("p1", res)
    \/ \E answer \in FetchAnswers, res \in CountResults :
         StaleLookup("p1", answer, res) /\ LogStaleLookup("p1", answer, res)
    \/ \E res \in CountResults : StaleUpdate("p1", res) /\ LogStep("p1", "update", res)

SpecStale == Init /\ [][NextStale]_vars

(* One instance runs cleanupUnfollowedLeaders, every call and its result
   recorded, while another establishes and releases leaders *)
NextUnf ==
    \/ \E cands \in CandidateLists(Markets, {1}, {0}), res \in {RetNull, RetPending} :
         EstablishCall("p2", cands, res) /\ Unlogged
    \/ \E res \in CreateResults("p2") : EstablishCreate("p2", res) /\ Unlogged
    \/ \E res \in RereadResults : EstablishReread("p2", res) /\ Unlogged
    \/ \E c \in Markets, a \in InputAddresses, res \in BoolResults :
         releaseLeadership("p2", c, a, res) /\ Unlogged
    \/ \E tracked \in TrackedLists, res \in CountResults :
         /\ UnfollowedFind("p1", tracked, res)
         /\ LogCleanup("p1", "cleanupUnfollowedLeaders", tracked, res)
    \/ \E res \in CountResults :
         UnfollowedUpdate("p1", res) /\ LogStep("p1", "update", res)

SpecUnf == Init /\ [][NextUnf]_vars

(* One instance establishes, records leader trades with timestamps in any
   order and releases, on one instrument; the timestamps recorded for each
   document are remembered *)
NextTs ==
    \/ \E cands \in FoundingLists("A", "m1", Timestamps), res \in {RetNull, RetPending} :
         EstablishCall("p1", cands, res) /\ Unlogged
    \/ \E res \in CreateResults("p1") : EstablishCreate("p1", res) /\ Unlogged
    \/ \E res \in RereadResults : EstablishReread("p1", res) /\ Unlogged
    \/ \E c \in {"m1"}, a \in InputAddresses, t \in Timestamps :
         recordLeaderTrade("p1", c, a, t, RetVoid) /\ LogRecord("p1", c, a, t, RetVoid)
    \/ \E c \in {"m1"}, a \in InputAddresses, res \in BoolResults :
         releaseLeadership("p1", c, a, res) /\ Unlogged

SpecTs == Init /\ [][NextTs]_vars

----------------------------------------------------------------------------
(* aggregateTradeActivities: the rows of one activity response are grouped by
   (transactionHash, conditionId, asset, side, type) and each group becomes one
   trade. A field value of a row is a JavaScript value: undefined, a finite
   number n, a string of digits whose value is n, or another string s. Sums
   and quotients are exact: sizes are whole numbers of a smallest unit and a
   price is a fraction in lowest terms. *)

Undefined == [t |-> "undefined", n |-> 0, s |-> ""]
Num(k) == [t |-> "number", n |-> k, s |-> ""]
NumStr(k) == [t |-> "numeric string", n |-> k, s |-> ToString(k)]
Text(x) == [t |-> "string", n |-> 0, s |-> x]
Null == [t |-> "null", n |-> 0, s |-> ""]

(* toNumber(value, 0): a finite number, the value of a numeric string, else
   the fallback *)
toNumber(value) ==
    IF value.t \in {"number", "numeric string"} THEN value.n ELSE 0

(* String(candidate) *)
StringOf(value) ==
    CASE value.t = "number" -> ToString(value.n)
      [] value.t \in {"string", "numeric string"} -> value.s
      [] OTHER -> value.t

AbsSigned(x) == x

(* Math.abs *)
Abs(x) == IF x < 0 THEN -x ELSE x

RECURSIVE GCD(_, _)
GCD(a, b) == IF b = 0 THEN a ELSE GCD(b, a % b)

(* the number n / d, for n >= 0 and d > 0 *)
Ratio(n, d) == [num |-> n \div GCD(n, d), den |-> d \div GCD(n, d)]

(* KahanSum.add: a zero is skipped, any other finite value is added *)
KahanAdd(sum, value) == IF value = 0 THEN sum ELSE sum + value

(* the candidates id, tradeId, trade_id, matchId, match_id, logIndex,
   log_index of a row, in this order *)
CandidateFields == 1..7

RECURSIVE findActivityIdFrom(_, _)
findActivityIdFrom(row, i) ==
    IF i > Len(row.ids) THEN ""
    ELSE LET candidate == row.ids[i]
         IN IF candidate.t \in {"undefined", "null"}
            THEN findActivityIdFrom(row, i + 1)
            ELSE IF StringOf(candidate) \notin {"", "null", "undefined"}
            THEN StringOf(candidate)
            ELSE findActivityIdFrom(row, i + 1)

(* findActivityId: the first usable candidate as a string, "" for null *)
findActivityId(row) == findActivityIdFrom(row, 1)

TxKeyShared(transactionHash, noTxCounter) ==
    IF transactionHash # "" THEN transactionHash ELSE "no_tx:" \o ToString(0)

(* transactionHash.length > 0 ? transactionHash : `no_tx:${noTxCounter++}` *)
TxKey(transactionHash, noTxCounter) ==
    IF transactionHash # "" THEN transactionHash
    ELSE "no_tx:" \o ToString(noTxCounter)

(* `${txKey}:${conditionId}:${asset}:${side}:${type}` *)
GroupKey(txKey, row) ==
    txKey \o ":" \o row.conditionId \o ":" \o row.asset
          \o ":" \o row.side \o ":" \o row.type

NotSeen(seenIds, activityId) == FALSE

(* existing.seenIds.has(activityId) *)
IsSeen(seenIds, activityId) == activityId \in seenIds

(* Number.isFinite(price) && price > 0 ? price : null *)
PositivePrice(price) == IF price > 0 THEN Num(price) ELSE Null

(* the group a first row opens *)
NewGroup(key, row) ==
    LET activityId == findActivityId(row)
        price == toNumber(row.price)
    IN [key |-> key,
        base |-> row,
        sumSize |-> KahanAdd(0, Abs(toNumber(row.size))),
        sumUsdc |-> KahanAdd(0, Abs(toNumber(row.usdcSize))),
        fillCount |-> 1,
        minPrice |-> PositivePrice(price),
        maxPrice |-> PositivePrice(price),
        firstFillTimestamp |-> toNumber(row.timestamp),
        lastFillTimestamp |-> toNumber(row.timestamp),
        seenIds |-> IF activityId # "" THEN {activityId} ELSE {}]

(* a further row of an existing group: dropped when its fill id was seen,
   counted otherwise *)
AddToGroup(existing, row) ==
    LET activityId == findActivityId(row)
        price == toNumber(row.price)
        timestamp == toNumber(row.timestamp)
    IN IF activityId # "" /\ IsSeen(existing.seenIds, activityId) THEN existing
       ELSE [existing EXCEPT
               !.seenIds = IF activityId # "" THEN @ \cup {activityId} ELSE @,
               !.sumSize = KahanAdd(@, Abs(toNumber(row.size))),
               !.sumUsdc = KahanAdd(@, Abs(toNumber(row.usdcSize))),
               !.fillCount = @ + 1,
               !.firstFillTimestamp =
                   IF timestamp # 0 /\ (@ = 0 \/ timestamp < @) THEN timestamp ELSE @,
               !.lastFillTimestamp =
                   IF timestamp # 0 /\ (@ = 0 \/ timestamp > @) THEN timestamp ELSE @,
               !.minPrice =
                   IF price > 0 /\ (@.t = "null" \/ price < @.n) THEN Num(price) ELSE @,
               !.maxPrice =
                   IF price > 0 /\ (@.t = "null" \/ price > @.n) THEN Num(price) ELSE @]

(* the body of the for loop over activities: groups is the Map in insertion
   order *)
AddActivity(acc, row) ==
    LET txKey == TxKey(row.transactionHash, acc.noTxCounter)
        key == GroupKey(txKey, row)
        counter == IF row.transactionHash # "" THEN acc.noTxCounter
                   ELSE acc.noTxCounter + 1
    IN IF \E i \in DOMAIN acc.groups : acc.groups[i].key = key
       THEN LET i == CHOOSE j \in DOMAIN acc.groups : acc.groups[j].key = key
            IN [groups |-> [acc.groups EXCEPT ![i] = AddToGroup(@, row)],
                noTxCounter |-> counter]
       ELSE [groups |-> Append(acc.groups, NewGroup(key, row)),
             noTxCounter |-> counter]

RECURSIVE GroupsOf(_)
GroupsOf(activities) ==
    IF activities = <<>> THEN [groups |-> <<>>, noTxCounter |-> 0]
    ELSE AddActivity(GroupsOf(SubSeq(activities, 1, Len(activities) - 1)),
                     activities[Len(activities)])

(* the trade a group becomes: the first row's fields with size, usdcSize,
   price, timestamp replaced and the fill statistics added *)
ResultOf(group) ==
    LET basePrice == toNumber(group.base.price)
        lastTs == IF group.lastFillTimestamp # 0 THEN group.lastFillTimestamp
                  ELSE toNumber(group.base.timestamp)
    IN [transactionHash |-> group.base.transactionHash,
        conditionId |-> group.base.conditionId,
        asset |-> group.base.asset,
        side |-> group.base.side,
        type |-> group.base.type,
        ids |-> group.base.ids,
        size |-> group.sumSize,
        usdcSize |-> group.sumUsdc,
        price |-> IF group.sumSize > 0 THEN Ratio(group.sumUsdc, group.sumSize)
                  ELSE Ratio(basePrice, 1),
        timestamp |-> lastTs,
        fillCount |-> group.fillCount,
        minPrice |-> IF group.minPrice.t = "null" THEN basePrice ELSE group.minPrice.n,
        maxPrice |-> IF group.maxPrice.t = "null" THEN basePrice ELSE group.maxPrice.n,
        firstFillTimestamp |-> IF group.firstFillTimestamp # 0
                               THEN group.firstFillTimestamp
                               ELSE toNumber(group.base.timestamp),
        lastFillTimestamp |-> lastTs]

aggregateTradeActivities(activities) ==
    LET groups == GroupsOf(activities).groups
    IN [i \in DOMAIN groups |-> ResultOf(groups[i])]

(* a row of the response *)
Activity(transactionHash, side, size, usdcSize, ids) ==
    [transactionHash |-> transactionHash, conditionId |-> "m1", asset |-> "t1",
     side |-> side, type |-> "TRADE", size |-> size, usdcSize |-> usdcSize,
     price |-> Num(1), timestamp |-> Num(1), ids |-> ids]

(* rows without a fill id, with the id in id, with it in matchId after an
   empty id, and with the string "null" as id *)
NoIds == [i \in CandidateFields |-> Undefined]
IdIn(i, x) == [NoIds EXCEPT ![i] = x]

(* the batches of at most MaxRows rows drawn from a set of rows *)
Batches(Rows) == UNION { [1..n -> Rows] : n \in 0..MaxRows }

(* the executor's and the coordinator's state at rest *)
InitAggregate(Rows) ==
    /\ leaders = {}
    /\ pc = [p \in Procs |-> "idle"]
    /\ estWinner = [p \in Procs |-> NoCandidate]
    /\ unfTracked = [p \in Procs |-> {}]
    /\ staleCutoff = [p \in Procs |-> 0]
    /\ staleScan = [p \in Procs |-> <<>>]
    /\ staleIndex = [p \in Procs |-> 0]
    /\ staleCache = [p \in Procs |-> NoCache]
    /\ staleRelease = [p \in Procs |-> {}]
    /\ activity = [id \in TradeIds |-> NoTrade]
    /\ rt = RouterIdle(FALSE)
    /\ buffer = <<>>
    /\ dispatched = <<>>
    /\ loop = LoopAt("head")
    /\ clock = 0
    /\ isRunning = TRUE
    /\ released = <<>>
    /\ rows \in Batches(Rows)
    /\ results = <<>>
    /\ args = NoArguments
    /\ ret = NotReturned
    /\ cause = [id \in TradeIds |-> ""]
    /\ hist = [p \in Procs |-> NoCall]
    /\ seen = [h \in Hashes |-> {}]

(* the response is aggregated *)
Aggregate ==
    /\ results' = aggregateTradeActivities(rows)
    /\ UNCHANGED <<rows, callVars, pollVars, routerVars, hist, seen>>
    /\ CoordinatorIdle

NextAggregate == Aggregate

(* rows of one transaction, instrument, asset, side and type: signed and
   missing sizes and notionals, with and without a fill id *)
SameKeyRows ==
    { Activity("0xh1", "BUY", size, usdcSize, ids) :
        size \in {Num(1), Num(-2), Undefined},
        usdcSize \in {Num(1), NumStr(-2), Undefined},
        ids \in {NoIds, IdIn(1, Text("f1"))} }

InitSameKey == InitAggregate(SameKeyRows)
SpecSameKey == InitSameKey /\ [][NextAggregate]_vars

(* rows of two groups whose fill id is missing, unusable, or one of two ids
   found in the first or in a later candidate field *)
FillIdRows ==
    { Activity("0xh1", side, Num(size), Num(1), ids) :
        side \in Sides,
        size \in {1, 2},
        ids \in {NoIds, IdIn(1, Text("null")), IdIn(1, Text("f1")),
                 [IdIn(1, Text("")) EXCEPT ![4] = Text("f1")], IdIn(6, Num(2))} }

InitFillId == InitAggregate(FillIdRows)
SpecFillId == InitFillId /\ [][NextAggregate]_vars

(* rows with and without a transactionHash, equal in every other field or
   differing in side or fill id *)
NoTxRows ==
    { Activity(transactionHash, side, Num(1), Num(1), ids) :
        transactionHash \in {"", "0xh1"},
        side \in Sides,
        ids \in {NoIds, IdIn(1, Text("f1"))} }

InitNoTx == InitAggregate(NoTxRows)
SpecNoTx == InitNoTx /\ [][NextAggregate]_vars

(* rows of one key with a size of 0 or 1, a price of 1, 2 or none, with and
   without a fill id *)
PricedRows ==
    { [Activity("0xh1", "BUY", Num(size), Num(1), ids) EXCEPT !.price = price] :
        size \in {0, 1},
        price \in {Num(1), Num(2), Undefined},
        ids \in {NoIds, IdIn(1, Text("f1"))} }

InitPriced == InitAggregate(PricedRows)
SpecPriced == InitPriced /\ [][NextAggregate]_vars

----------------------------------------------------------------------------
(* getBuyDecision: the slippage policy of a BUY order. A JavaScript number is
   a finite fraction in lowest terms, NaN, Infinity or -Infinity, and its
   arithmetic is exact; a string is the sequence of its characters. *)

Finite(n, d) ==
    [k |-> "finite", num |-> n \div GCD(Abs(n), d), den |-> d \div GCD(Abs(n), d)]
NaN == [k |-> "NaN", num |-> 0, den |-> 1]
Infinity == [k |-> "Infinity", num |-> 1, den |-> 1]
NegInfinity == [k |-> "-Infinity", num |-> -1, den |-> 1]
Str(chars) == [k |-> "string", chars |-> chars]
Missing == [k |-> "undefined"]
NullValue == [k |-> "null"]

(* Number.isFinite *)
IsFinite(x) == x.k = "finite"

(* the sign of a number that is not NaN *)
SignOf(x) == IF x.num > 0 THEN 1 ELSE IF x.num < 0 THEN -1 ELSE 0

(* a > b and a >= b: false when an operand is NaN *)
Greater(a, b) ==
    /\ a.k # "NaN" /\ b.k # "NaN"
    /\ \/ a.k = "Infinity" /\ b.k # "Infinity"
       \/ b.k = "-Infinity" /\ a.k # "-Infinity"
       \/ IsFinite(a) /\ IsFinite(b) /\ a.num * b.den > b.num * a.den
GreaterEq(a, b) ==
    /\ a.k # "NaN" /\ b.k # "NaN"
    /\ \/ a = b
       \/ Greater(a, b)

(* a + b *)
Plus(a, b) ==
    CASE a.k = "NaN" \/ b.k = "NaN" -> NaN
      [] IsFinite(a) /\ IsFinite(b) ->
            Finite(a.num * b.den + b.num * a.den, a.den * b.den)
      [] IsFinite(a) -> b
      [] IsFinite(b) -> a
      [] OTHER -> IF a = b THEN a ELSE NaN

(* a * b *)
Times(a, b) ==
    CASE a.k = "NaN" \/ b.k = "NaN" -> NaN
      [] IsFinite(a) /\ IsFinite(b) -> Finite(a.num * b.num, a.den * b.den)
      [] SignOf(a) * SignOf(b) = 0 -> NaN
      [] SignOf(a) * SignOf(b) > 0 -> Infinity
      [] OTHER -> NegInfinity

(* Math.min(a, b): NaN when an operand is NaN *)
MathMin(a, b) ==
    IF a.k = "NaN" \/ b.k = "NaN" THEN NaN
    ELSE IF Greater(a, b) THEN b ELSE a

(* -x *)
Negate(x) ==
    CASE x.k = "NaN" -> NaN
      [] x.k = "Infinity" -> NegInfinity
      [] x.k = "-Infinity" -> Infinity
      [] OTHER -> Finite(-x.num, x.den)

DigitChars == { ToString(i) : i \in 0..9 }
DigitValue(c) == CHOOSE i \in 0..9 : ToString(i) = c

(* the value of a sequence of decimal digits *)
RECURSIVE DigitsValue(_)
DigitsValue(ds) ==
    IF ds = <<>> THEN 0
    ELSE 10 * DigitsValue(SubSeq(ds, 1, Len(ds) - 1)) + DigitValue(ds[Len(ds)])

RECURSIVE Pow10(_)
Pow10(n) == IF n = 0 THEN 1 ELSE 10 * Pow10(n - 1)

(* an unsigned decimal literal: digits with at most one point and at least
   one digit, or the word Infinity; anything else is NaN *)
UnsignedLiteral(chars) ==
    LET points == { i \in DOMAIN chars : chars[i] = "." }
        point == IF points = {} THEN Len(chars) + 1 ELSE CHOOSE i \in points : TRUE
        whole == SubSeq(chars, 1, point - 1)
        fraction == SubSeq(chars, point + 1, Len(chars))
    IN  IF chars = <<"I", "n", "f", "i", "n", "i", "t", "y">> THEN Infinity
        ELSE IF \/ Cardinality(points) > 1
                \/ \E i \in DOMAIN chars : chars[i] \notin DigitChars \cup {"."}
                \/ Len(whole) + Len(fraction) = 0
             THEN NaN
        ELSE Finite(DigitsValue(whole \o fraction), Pow10(Len(fraction)))

(* Number(value) of a number or of a string without white space, exponent or
   radix prefix: the empty string is 0, a signed decimal literal is its
   value, any other string is NaN *)
Number(value) ==
    IF value.k # "string" THEN value
    ELSE IF value.chars = <<>> THEN Finite(0, 1)
    ELSE IF Head(value.chars) = "-" THEN Negate(UnsignedLiteral(Tail(value.chars)))
    ELSE IF Head(value.chars) = "+" THEN UnsignedLiteral(Tail(value.chars))
    ELSE UnsignedLiteral(value.chars)

AnyFinite(value) == IsFinite(value)

(* isFinitePositive *)
isFinitePositive(value) == IsFinite(value) /\ value.num > 0

(* config?.field ?? fallback *)
OrDefault(config, field, fallback) ==
    IF config.k = "undefined" THEN fallback
    ELSE IF config.fields[field].k \in {"undefined", "null"} THEN fallback
    ELSE config.fields[field]

ThresholdNames ==
    {"deathZonePrice", "highZoneMin", "highZoneAbsSlippage", "combatZoneMin",
     "combatZoneAbsSlippage", "zebraZoneMaxMultiplier", "absoluteMaxAcceptablePriceCap"}

(* a config object that sets the thresholds of the function given *)
Config(set) ==
    [k |-> "object",
     fields |-> [f \in ThresholdNames |-> IF f \in DOMAIN set THEN set[f] ELSE Missing]]

Uncapped(value, absoluteMaxAcceptablePriceCap) == value

(* capMax *)
capMax(value, absoluteMaxAcceptablePriceCap) ==
    IF ~IsFinite(absoluteMaxAcceptablePriceCap) \/ absoluteMaxAcceptablePriceCap.num <= 0
    THEN value
    ELSE MathMin(value, absoluteMaxAcceptablePriceCap)

(* getBuyDecision; the reason is the text before the colon or the bracket *)
getBuyDecision(originalExecutedPrice, config) ==
    LET deathZonePrice == OrDefault(config, "deathZonePrice", Finite(95, 100))
        highZoneMin == OrDefault(config, "highZoneMin", Finite(8, 10))
        highZoneAbsSlippage == OrDefault(config, "highZoneAbsSlippage", Finite(1, 100))
        combatZoneMin == OrDefault(config, "combatZoneMin", Finite(2, 10))
        combatZoneAbsSlippage == OrDefault(config, "combatZoneAbsSlippage", Finite(3, 100))
        zebraZoneMaxMultiplier == OrDefault(config, "zebraZoneMaxMultiplier", Finite(12, 10))
        absoluteMaxAcceptablePriceCap ==
            OrDefault(config, "absoluteMaxAcceptablePriceCap", Finite(99, 100))
        priceNum == Number(originalExecutedPrice)
    IN  IF ~isFinitePositive(priceNum)
        THEN [shouldBuy |-> FALSE, maxAcceptablePrice |-> NullValue,
              reason |-> "invalid original price"]
        ELSE IF Greater(priceNum, deathZonePrice)
        THEN [shouldBuy |-> FALSE, maxAcceptablePrice |-> NullValue,
              reason |-> "death zone"]
        ELSE IF GreaterEq(priceNum, highZoneMin)
        THEN [shouldBuy |-> TRUE,
              maxAcceptablePrice |->
                  capMax(Plus(priceNum, highZoneAbsSlippage), absoluteMaxAcceptablePriceCap),
              reason |-> "high zone"]
        ELSE IF GreaterEq(priceNum, combatZoneMin)
        THEN [shouldBuy |-> TRUE,
              maxAcceptablePrice |->
                  capMax(Plus(priceNum, combatZoneAbsSlippage), absoluteMaxAcceptablePriceCap),
              reason |-> "combat zone"]
        ELSE [shouldBuy |-> TRUE,
              maxAcceptablePrice |->
                  capMax(Times(priceNum, zebraZoneMaxMultiplier), absoluteMaxAcceptablePriceCap),
              reason |-> "zebra zone"]

(* the executor and the coordinator at rest, and one call of a pure function
   with arguments drawn from a set *)
InitCall(Arguments) ==
    /\ leaders = {}
    /\ pc = [p \in Procs |-> "idle"]
    /\ estWinner = [p \in Procs |-> NoCandidate]
    /\ unfTracked = [p \in Procs |-> {}]
    /\ staleCutoff = [p \in Procs |-> 0]
    /\ staleScan = [p \in Procs |-> <<>>]
    /\ staleIndex = [p \in Procs |-> 0]
    /\ staleCache = [p \in Procs |-> NoCache]
    /\ staleRelease = [p \in Procs |-> {}]
    /\ activity = [id \in TradeIds |-> NoTrade]
    /\ rt = RouterIdle(FALSE)
    /\ buffer = <<>>
    /\ dispatched = <<>>
    /\ loop = LoopAt("head")
    /\ clock = 0
    /\ isRunning = TRUE
    /\ released = <<>>
    /\ rows = <<>>
    /\ results = <<>>
    /\ args \in Arguments
    /\ ret = NotReturned
    /\ cause = [id \in TradeIds |-> ""]
    /\ hist = [p \in Procs |-> NoCall]
    /\ seen = [h \in Hashes |-> {}]

ReturnOf(value) == [returned |-> TRUE, value |-> value]

(* the call returns *)
CallGetBuyDecision ==
    /\ args.function = "getBuyDecision"
    /\ ret = NotReturned
    /\ ret' = ReturnOf(getBuyDecision(args.originalExecutedPrice, args.config))
    /\ UNCHANGED <<args, aggVars, pollVars, routerVars, hist, seen>>
    /\ CoordinatorIdle

NextBuy == CallGetBuyDecision

(* prices as numbers on a grid of 0.005 from below zero to above one, the
   numbers that are not finite, and prices as strings *)
PriceNumbers ==
    { Finite(k, 200) : k \in -2..MaxTick } \cup {NaN, Infinity, NegInfinity}
PriceStrings ==
    { Str(chars) : chars \in
        { <<>>, <<"a">>, <<"-">>, <<".">>, <<"0">>, <<"0", ".", "5">>, <<".", "5">>,
          <<"-", ".", "5">>, <<"+", "1">>, <<"1", ".", "0", ".">>,
          <<"0", ".", "1", "9", "9", "9">>, <<"0", ".", "2", "0", "0", "1">>,
          <<"0", ".", "7", "9", "9", "9">>, <<"0", ".", "8", "0", "0", "1">>,
          <<"0", ".", "9", "4", "9", "9">>, <<"0", ".", "9", "5", "0", "1">>,
          <<"0", ".", "9", "5", "1">>, <<"0", ".", "0", "5">>,
          <<"I", "n", "f", "i", "n", "i", "t", "y">>,
          <<"-", "I", "n", "f", "i", "n", "i", "t", "y">>} }
PriceInputs == PriceNumbers \cup PriceStrings

BuyCalls(Prices, Configs) ==
    { [function |-> "getBuyDecision", originalExecutedPrice |-> price, config |-> config] :
        price \in Prices, config \in Configs }

(* the default thresholds: no config, or a config that sets nothing *)
DefaultConfigs == {Missing, Config(<<>>)}
InitBuyDefault == InitCall(BuyCalls(PriceInputs, DefaultConfigs))
SpecBuyDefault == InitBuyDefault /\ [][NextBuy]_vars

(* configs that leave each threshold unset or set it to a number: zone
   bounds below, at and above the defaults or NaN, slippages of either sign,
   infinite or NaN, a multiplier of zero or above one, infinite or NaN, and a
   ceiling that is finite and positive *)
ThresholdConfigs ==
    { Config([deathZonePrice |-> death, highZoneMin |-> high,
              highZoneAbsSlippage |-> highSlippage, combatZoneMin |-> combat,
              combatZoneAbsSlippage |-> combatSlippage,
              zebraZoneMaxMultiplier |-> multiplier,
              absoluteMaxAcceptablePriceCap |-> ceiling]) :
        death \in {Missing, Finite(1, 2), Finite(1, 1), NaN},
        high \in {Missing, Finite(9, 10), NaN},
        highSlippage \in {Missing, Finite(1, 10), Finite(-1, 10), Infinity, NaN},
        combat \in {Missing, Finite(2, 5)},
        combatSlippage \in {Missing, Finite(1, 2), NaN},
        multiplier \in {Missing, Finite(5, 1), Finite(0, 1), Infinity, NaN},
        ceiling \in {Missing, Finite(1, 2), Finite(97, 100), Finite(2, 1)} }

(* prices on a grid of 0.05, prices that are not finite, and strings *)
ConfigPrices ==
    { Finite(k, 20) : k \in -1..21 } \cup {NaN, Infinity}
        \cup { Str(chars) : chars \in {<<>>, <<"a">>, <<"0", ".", "5">>} }

InitBuyConfig == InitCall(BuyCalls(ConfigPrices, {Missing} \cup ThresholdConfigs))
SpecBuyConfig == InitBuyConfig /\ [][NextBuy]_vars

----------------------------------------------------------------------------
(* calculateOrderSize: the sizing engine, as its contract describes it (the
   strategies, then the multiplier, the order clamp, the position clamp, the
   minimum and the balance ceiling, in this order) and as its tests call it.
   Amounts are exact fractions. The reasoning text is left out. *)

Zero == Finite(0, 1)
Less(a, b) == Greater(b, a)
Minus(a, b) == Plus(a, Negate(b))
MathMax(a, b) == IF Greater(b, a) THEN b ELSE a
Configured(value) == value.k \notin {"undefined", "null"}

(* a tier { min, max, multiplier }; max is null for the open-ended tier *)
Tier(min, max, multiplier) == [min |-> min, max |-> max, multiplier |-> multiplier]

(* the tier whose range min <= size < max holds the trader's order size *)
InTier(tier, traderOrderSize) ==
    /\ GreaterEq(traderOrderSize, tier.min)
    /\ tier.max = NullValue \/ Less(traderOrderSize, tier.max)

(* getTradeMultiplier: the tiered lookup when tiers are configured, else the
   single multiplier when configured, else 1.0 *)
getTradeMultiplier(config, traderOrderSize) ==
    IF config.tieredMultipliers # <<>>
    THEN LET i == CHOOSE i \in DOMAIN config.tieredMultipliers :
                      InTier(config.tieredMultipliers[i], traderOrderSize)
         IN  config.tieredMultipliers[i].multiplier
    ELSE IF Configured(config.tradeMultiplier) THEN config.tradeMultiplier
    ELSE Finite(1, 1)

(* the base amount of the strategy; the ADAPTIVE curve is a parameter, so its
   percentage for this signal is given with the config *)
BaseAmount(config, signalNotional) ==
    CASE config.strategy = "PERCENTAGE" ->
            Times(signalNotional, Times(config.copySize, Finite(1, 100)))
      [] config.strategy = "FIXED" -> config.copySize
      [] config.strategy = "ADAPTIVE" ->
            Times(signalNotional, Times(config.adaptivePercent, Finite(1, 100)))

(* base amount x multiplier *)
Multiplied(config, signalNotional) ==
    Times(BaseAmount(config, signalNotional), getTradeMultiplier(config, signalNotional))

ClampUnbounded(amount, maxOrderSizeUSD) == MathMax(amount, Zero)

(* step 2: clamp to [0, maxOrderSizeUSD] *)
ClampOrder(amount, maxOrderSizeUSD) ==
    MathMin(MathMax(amount, Zero), maxOrderSizeUSD)

(* step 3: the remaining headroom under maxPositionSizeUSD, clamped at 0 *)
ClampPosition(amount, config, currentPositionNotional) ==
    IF /\ Configured(config.maxPositionSizeUSD)
       /\ Greater(Plus(currentPositionNotional, amount), config.maxPositionSizeUSD)
    THEN MathMax(Minus(config.maxPositionSizeUSD, currentPositionNotional), Zero)
    ELSE amount

(* availableBalance x 0.99 *)
MaxAffordable(availableBalance) == Times(availableBalance, Finite(99, 100))

NeverBumped(amount, config, availableBalance) ==
    IF Less(amount, config.minOrderSizeUSD) THEN Zero ELSE amount

(* step 4: below the minimum the amount becomes the minimum when the balance
   affords it and 0 when it does not *)
ApplyMinimum(amount, config, availableBalance) ==
    IF Less(amount, config.minOrderSizeUSD)
    THEN IF GreaterEq(MaxAffordable(availableBalance), config.minOrderSizeUSD)
         THEN config.minOrderSizeUSD
         ELSE Zero
    ELSE amount

(* step 5: the balance ceiling *)
ApplyBalance(amount, availableBalance) ==
    IF Greater(amount, MaxAffordable(availableBalance))
    THEN MaxAffordable(availableBalance)
    ELSE amount

calculateOrderSize(config, signalNotional, availableBalance, currentPositionNotional) ==
    LET multiplied == Multiplied(config, signalNotional)
        clamped == ClampOrder(multiplied, config.maxOrderSizeUSD)
        positioned == ClampPosition(clamped, config, currentPositionNotional)
        atLeastMinimum == ApplyMinimum(positioned, config, availableBalance)
    IN  [baseAmount |-> BaseAmount(config, signalNotional),
         finalAmount |-> ApplyBalance(atLeastMinimum, availableBalance),
         strategy |-> config.strategy,
         cappedByMax |-> Greater(multiplied, config.maxOrderSizeUSD),
         belowMinimum |-> Less(positioned, config.minOrderSizeUSD),
         reducedByBalance |-> Greater(atLeastMinimum, MaxAffordable(availableBalance))]

(* validateCopyStrategyConfig returns no violation *)
ValidConfig(config) ==
    /\ Greater(config.copySize, Zero)
    /\ config.strategy = "PERCENTAGE" => GreaterEq(Finite(100, 1), config.copySize)
    /\ GreaterEq(config.maxOrderSizeUSD, config.minOrderSizeUSD)

(* the call returns *)
CallCalculateOrderSize ==
    /\ args.function = "calculateOrderSize"
    /\ ret = NotReturned
    /\ ret' = ReturnOf(calculateOrderSize(args.config, args.signalNotional,
                                          args.availableBalance,
                                          args.currentPositionNotional))
    /\ UNCHANGED <<args, aggVars, pollVars, routerVars, hist, seen>>
    /\ CoordinatorIdle

NextSize == CallCalculateOrderSize

(* tiers without gap from 0: x2 below 10, x1 below 100, x0.2 from 100 on *)
SizingTiers ==
    <<Tier(Zero, Finite(10, 1), Finite(2, 1)),
      Tier(Finite(10, 1), Finite(100, 1), Finite(1, 1)),
      Tier(Finite(100, 1), NullValue, Finite(1, 5))>>

(* the valid configs of the three strategies over copy sizes, order limits,
   position limits and multipliers *)
SizingConfigs ==
    { config \in
        [strategy : {"PERCENTAGE", "FIXED", "ADAPTIVE"},
         copySize : {Finite(10, 1), Finite(50, 1), Finite(200, 1)},
         adaptivePercent : {Finite(20, 1)},
         maxOrderSizeUSD : {Finite(1, 1), Finite(100, 1)},
         minOrderSizeUSD : {Finite(1, 1), Finite(2, 1)},
         maxPositionSizeUSD : {Missing, Finite(50, 1)},
         tradeMultiplier : {Missing, Finite(5, 2)},
         tieredMultipliers : {<<>>, SizingTiers}] :
        ValidConfig(config) }

SignalNotionals == { Finite(n, 1) : n \in {0, 5, 50, 100, 2000} }
AvailableBalances == { Finite(n, 2) : n \in {0, 1, 2, 3, 10, 2000, 20000} }
PositionNotionals == { Finite(n, 2) : n \in {0, 80, 90, 99, 100, 120} }

SizeCalls ==
    { [function |-> "calculateOrderSize", config |-> config, signalNotional |-> signal,
       availableBalance |-> balance, currentPositionNotional |-> position] :
        config \in SizingConfigs, signal \in SignalNotionals,
        balance \in AvailableBalances, position \in PositionNotionals }

InitSize == InitCall(SizeCalls)
SpecSize == InitSize /\ [][NextSize]_vars

----------------------------------------------------------------------------
(* Properties of establishLeader and releaseLeadership (SpecEst) *)

(* the instance issues a new call in this step *)
Called(p) == hist'[p].seq # hist[p].seq

(* w is a BUY candidate of cands that no other BUY candidate exceeds *)
LargestBuy(w, cands) ==
    /\ \E i \in DOMAIN cands : cands[i] = w
    /\ w.side = "BUY"
    /\ \A j \in DOMAIN cands : cands[j].side = "BUY" => cands[j].usdcSize <= w.usdcSize

(* d is the active record founded by candidate w *)
FoundedBy(d, w) ==
    /\ d.conditionId = w.conditionId
    /\ d.leaderAddress = ToLowerCase(w.userAddress)
    /\ d.side = w.side
    /\ d.initialTradeSize = w.usdcSize
    /\ d.initialTradeTimestamp = w.timestamp
    /\ d.initialTransactionHash = w.transactionHash
    /\ d.isActive

(* C4: when establishLeader creates a record, the record is founded by a BUY
   candidate of the call whose usdcSize is at least that of every other BUY
   candidate, and that candidate is returned; no record of the store ever has
   side SELL. *)
C4_LargestBuyFounds ==
    [][ /\ \A p \in Procs :
             (pc[p] = "est_create" /\ leaders' # leaders) =>
                \E i \in DOMAIN hist[p].cands :
                   LET w == hist[p].cands[i]
                   IN /\ LargestBuy(w, hist[p].cands)
                      /\ \E d \in leaders' \ leaders :
                            FoundedBy(d, w) /\ leaders' = leaders \cup {d}
                      /\ hist'[p].kind = "cand"
                      /\ hist'[p].addr = w.userAddress
        /\ \A r \in leaders' : r.side = "BUY" ]_vars

(* a call created the record of its smaller-than-a-SELL BUY candidate *)
C4_Witness ==
    /\ hist["p1"].op = "establishLeader"
    /\ hist["p1"].step = "create"
    /\ hist["p1"].kind = "cand"
    /\ Len(hist["p1"].cands) = 2
    /\ \E i, j \in DOMAIN hist["p1"].cands :
          /\ hist["p1"].cands[i].side = "SELL"
          /\ hist["p1"].cands[j].side = "BUY"
          /\ hist["p1"].cands[i].usdcSize > hist["p1"].cands[j].usdcSize
          /\ \E r \in leaders : FoundedBy(r, hist["p1"].cands[j])

(* C5: establishLeader called with a list without a BUY candidate returns
   null in that step and leaves the store as it was. *)
C5_NoBuyNoChange ==
    [][ \A p \in Procs :
          (Called(p) /\ hist'[p].op = "establishLeader" /\ ~hist'[p].hasBuy) =>
             /\ hist'[p].kind = "null"
             /\ leaders' = leaders
             /\ pc'[p] = "idle" ]_vars

(* a call with SELL candidates alone has returned null over a store that
   holds records *)
C5_Witness ==
    /\ hist["p1"].op = "establishLeader"
    /\ hist["p1"].kind = "null"
    /\ hist["p1"].step = "call"
    /\ hist["p1"].nCands = 2
    /\ ~hist["p1"].hasBuy
    /\ \E r \in leaders : ~r.isActive
    /\ \A c \in {"m1"} : ~HasActiveLeader(c)

(* the account is the active leader of the instrument, whatever its case *)
LeadsMarket(r, c, a) ==
    r.isActive /\ r.conditionId = c /\ ToLowerCase(r.leaderAddress) = ToLowerCase(a)

(* C6: releaseLeadership(c, a) returns true exactly when a, compared
   case-insensitively, is the active leader of c; then that one record is
   deactivated and nothing else changes; otherwise no record changes; a call
   repeated with the same arguments returns false and changes nothing. *)
C6_ReleaseContract ==
    [][ \A p \in Procs :
          (Called(p) /\ hist'[p].op = "releaseLeadership") =>
             LET c == hist'[p].cond
                 a == hist'[p].inAddr
                 led == { r \in leaders : LeadsMarket(r, c, a) }
             IN /\ hist'[p].flag <=> (led # {})
                /\ led # {} =>
                      \E r \in led :
                         leaders' = (leaders \ {r}) \cup {[r EXCEPT !.isActive = FALSE]}
                /\ led = {} => leaders' = leaders
                /\ (hist[p].op = "releaseLeadership" /\ hist[p].cond = c
                                                      /\ hist[p].inAddr = a) =>
                      (~hist'[p].flag /\ leaders' = leaders) ]_vars

(* a release naming the leader in another case has deactivated its record *)
C6_Witness ==
    /\ hist["p1"].op = "releaseLeadership"
    /\ hist["p1"].flag
    /\ hist["p1"].inAddr = "A"
    /\ \E r \in leaders :
          /\ ~r.isActive
          /\ r.conditionId = hist["p1"].cond
          /\ r.leaderAddress = "a"
    /\ ~HasActiveLeader(hist["p1"].cond)

----------------------------------------------------------------------------
(* Properties of the store under every interleaving (Spec) *)

(* C1: in every reachable state, whatever the interleaving of the five
   operations of the coordinator instances, each conditionId has at most one
   record with isActive = true. *)
C1_AtMostOneActiveLeader ==
    \A c \in Markets : Cardinality(ActiveLeaders(c)) <= 1

(* both instances had their create for one instrument rejected, while that
   instrument has an active leader and the other instrument has one too *)
C1_Witness ==
    /\ \A p \in Procs : pc[p] = "est_dup" /\ estWinner[p].conditionId = "m1"
    /\ \A c \in Markets : HasActiveLeader(c)

----------------------------------------------------------------------------
(* Properties of cleanupUnfollowedLeaders (SpecUnf) *)

(* the active leaders whose account, compared case-insensitively, is not
   among the tracked accounts *)
NotTracked(tracked) ==
    { r \in leaders :
        r.isActive /\ \A a \in tracked : ToLowerCase(a) # ToLowerCase(r.leaderAddress) }

(* C10: cleanupUnfollowedLeaders(tracked) deactivates every active leader
   whose account is not in tracked (compared case-insensitively), changes no
   other record, and returns the number of records it deactivated; it returns
   0 without a write when it finds no such leader. *)
C10_UnfollowedContract ==
    [][ \A p \in Procs :
          /\ (Called(p) /\ hist'[p].op = "cleanupUnfollowedLeaders") =>
                /\ leaders' = leaders
                /\ IF NotTracked(hist'[p].tracked) = {}
                   THEN hist'[p].kind = "count" /\ hist'[p].count = 0 /\ pc'[p] = "idle"
                   ELSE hist'[p].kind = "pending" /\ pc'[p] = "unf_update"
          /\ (pc[p] = "unf_update" /\ pc'[p] # "unf_update") =>
                LET gone == NotTracked(hist[p].tracked)
                IN /\ leaders' = (leaders \ gone)
                                   \cup { [r EXCEPT !.isActive = FALSE] : r \in gone }
                   /\ hist'[p].kind = "count"
                   /\ hist'[p].count = Cardinality(gone)
                   /\ hist'[p].tracked = hist[p].tracked ]_vars

(* a cleanup given the tracked account in upper case deactivated the one
   leader of another account and left the tracked leader active *)
C10_Witness ==
    /\ hist["p1"].op = "cleanupUnfollowedLeaders"
    /\ hist["p1"].step = "update"
    /\ hist["p1"].count = 1
    /\ hist["p1"].tracked = {"A"}
    /\ \E r \in leaders : r.isActive /\ r.leaderAddress = "a"
    /\ \E r \in leaders : ~r.isActive /\ r.leaderAddress = "b"

----------------------------------------------------------------------------
(* Properties of recordLeaderTrade (SpecTs) *)

RECURSIVE SetMax(_)
SetMax(S) ==
    LET x == CHOOSE y \in S : TRUE
    IN IF S = {x} THEN x ELSE Max(x, SetMax(S \ {x}))

(* C7: an active record's lastTradeTimestamp is the maximum of its founding
   timestamp and every timestamp recorded for its leader, in whatever order
   they were recorded; no step decreases a record's lastTradeTimestamp; a
   recordLeaderTrade naming an account that is not the instrument's active
   leader changes no record. *)
C7_MonotoneMaximum ==
    /\ [](\A r \in leaders :
            r.isActive =>
               r.lastTradeTimestamp =
                  SetMax({r.initialTradeTimestamp} \cup seen[r.initialTransactionHash]))
    /\ [][ /\ \A r \in leaders : \A n \in leaders' :
                 n.initialTransactionHash = r.initialTransactionHash =>
                    n.lastTradeTimestamp >= r.lastTradeTimestamp
           /\ \A p \in Procs :
                 (/\ Called(p)
                  /\ hist'[p].op = "recordLeaderTrade"
                  /\ ~\E r \in leaders : LeadsMarket(r, hist'[p].cond, hist'[p].inAddr)) =>
                    leaders' = leaders ]_vars

(* after a later timestamp, an earlier one was recorded for the active
   leader, named in upper case, and the record keeps the later one *)
C7_Witness ==
    /\ hist["p1"].op = "recordLeaderTrade"
    /\ hist["p1"].inAddr = "A"
    /\ \E r \in leaders :
          /\ LeadsMarket(r, hist["p1"].cond, hist["p1"].inAddr)
          /\ hist["p1"].ts < r.lastTradeTimestamp
          /\ r.initialTradeTimestamp < r.lastTradeTimestamp
          /\ hist["p1"].ts \in seen[r.initialTransactionHash]
          /\ Cardinality(seen[r.initialTransactionHash]) >= 2

----------------------------------------------------------------------------
(* Properties of concurrent establishLeader calls (SpecRace) *)

(* the last calls of p and q are establishLeader calls for one instrument
   that had no active leader, they overlapped each other and no other call,
   and both have returned *)
RacedAndReturned(p, q) ==
    /\ p # q
    /\ \A i \in {p, q} :
          /\ hist[i].op = "establishLeader"
          /\ hist[i].kind \in {"cand", "null"}
          /\ hist[i].noLeader
          /\ hist[i].raced
          /\ ~hist[i].disturbed
    /\ hist[p].cond = hist[q].cond

(* C2: when two instances call establishLeader concurrently for one
   instrument that has no active leader, then after both calls returned
   exactly one record is active for the instrument and both calls returned
   the same winning account. *)
C2_RaceYieldsOneLeader ==
    \A p, q \in Procs :
       RacedAndReturned(p, q) =>
          /\ Cardinality(ActiveLeaders(hist[p].cond)) = 1
          /\ hist[p].kind = "cand"
          /\ hist[q].kind = "cand"
          /\ ToLowerCase(hist[p].addr) = ToLowerCase(hist[q].addr)

(* the race as the claim describes it: one create succeeded, the other was
   rejected and its caller re-read the winner *)
C2_Witness ==
    /\ RacedAndReturned("p1", "p2")
    /\ hist["p1"].step = "create"
    /\ hist["p2"].step = "reread"
    /\ hist["p2"].kind = "cand"
    /\ Cardinality(ActiveLeaders(hist["p1"].cond)) = 1

----------------------------------------------------------------------------
(* Properties of cleanupStaleLeaders (SpecStale) *)

(* the cleanup's lookup of r's account answered a list without a position
   above dust in r's market *)
LookedUpFlat(p, r) ==
    /\ staleCache[p][r.leaderAddress].cached
    /\ ~staleCache[p][r.leaderAddress].isNull
    /\ \A i \in DOMAIN staleCache[p][r.leaderAddress].positions :
          LET pos == staleCache[p][r.leaderAddress].positions[i]
          IN pos.conditionId # r.conditionId \/ pos.size <= DUST_THRESHOLD

(* C8: cleanupStaleLeaders deactivates an active leader only if its
   last-activity timestamp is older than now minus maxAgeHours and the
   looked-up exposure of its account in its market is at or below dust; a
   recent leader stays active. *)
C8_OnlyStaleAndFlat ==
    [][ \A p \in Procs :
          (pc[p] = "stale_update" /\ pc'[p] # "stale_update") =>
             \A r \in leaders :
                (r.isActive /\ r \notin leaders') =>
                   /\ r.lastTradeTimestamp * 1000 < staleCutoff[p]
                   /\ LookedUpFlat(p, r) ]_vars

(* C9: a position lookup that fails for the account of one stale leader
   leaves that leader's record as it is and does not abort the call: every
   other stale leader whose lookup gave a list without exposure above dust is
   deactivated by the same call. *)
C9_FailedLookupSkipsOne ==
    [][ \A p \in Procs :
          /\ (pc[p] = "stale_lookup" /\ pc'[p] # "stale_lookup" /\ hist'[p].dueRelease) =>
                pc'[p] = "stale_update" /\ hist'[p].kind = "pending"
          /\ (Called(p) /\ hist'[p].op = "cleanupStaleLeaders") => leaders' = leaders
          /\ (pc[p] = "stale_lookup" /\ staleCache'[p] # staleCache[p]) => leaders' = leaders
          /\ (pc[p] = "stale_update" /\ pc'[p] # "stale_update") =>
                \A r \in Range(staleScan[p]) :
                   /\ (staleCache[p][r.leaderAddress].cached
                         /\ staleCache[p][r.leaderAddress].isNull) =>
                         \A x \in leaders :
                            (x.conditionId = r.conditionId
                               /\ x.leaderAddress = r.leaderAddress) => x \in leaders'
                   /\ LookedUpFlat(p, r) =>
                         \A x \in leaders' :
                            (x.conditionId = r.conditionId
                               /\ x.leaderAddress = r.leaderAddress) => ~x.isActive ]_vars

(* a cleanup whose lookup failed for one stale leader deactivated the other
   and left the first active *)
C9_Witness ==
    /\ hist["p1"].op = "cleanupStaleLeaders"
    /\ hist["p1"].step = "update"
    /\ hist["p1"].failedLookup
    /\ hist["p1"].count = 1
    /\ \E r \in leaders : r.isActive /\ r.initialTradeTimestamp = 0 /\ r.lastTradeTimestamp = 0
    /\ \E r \in leaders : ~r.isActive /\ r.initialTradeTimestamp = 0 /\ r.lastTradeTimestamp = 0

----------------------------------------------------------------------------
(* Properties of the trade router (SpecLoop) *)

(* the trade was put in the aggregation buffer or handed to postOrder *)
Forwarded(id) ==
    \/ \E i \in DOMAIN dispatched : dispatched[i] = id
    \/ \E e \in Range(buffer) : \E i \in DOMAIN e.trades : e.trades[i] = id

(* the account of the trade is the account a, compared case-insensitively *)
SameAccount(id, a) == ToLowerCase(activity[id].userAddress) = ToLowerCase(a)

(* C3: while an instrument has an active leader, the router accepts only
   trades of the leader's account (compared case-insensitively): a window it
   evaluates while a leader is active is routed for that leader; a trade it
   accepts, buffers or hands to execution is of the window's leader and, when
   the instrument has an active leader, of that leader; every trade of the
   window from another account, BUY or SELL, ends marked bot = true with
   code -1, neither buffered nor handed to execution, and a suppressed trade
   that is neither is never buffered or handed to execution afterwards. *)
C3_OnlyLeaderAccepted ==
    [][ /\ (rt.pc = "window" /\ rt' # rt /\ HasActiveLeader(rt.conditionId)) =>
              /\ \A r \in ActiveLeaders(rt.conditionId) :
                    rt'.leaderAddress = ToLowerCase(r.leaderAddress)
              /\ rt'.pc \in {"accept", "skip"}
              /\ rt'.window = rt.window
        /\ \A id \in TradeIds :
              /\ ((rt.pc = "accept" /\ rt'.pc = "handle" /\ Head(rt.queue) = id)
                    \/ (Forwarded(id)' /\ ~Forwarded(id))) =>
                    /\ SameAccount(id, rt.leaderAddress)
                    /\ \A r \in ActiveLeaders(activity[id].conditionId) :
                          SameAccount(id, r.leaderAddress)
              /\ (rt.leaderAddress # "" /\ rt'.window # rt.window
                    /\ \E i \in DOMAIN rt.window : rt.window[i] = id
                    /\ ~SameAccount(id, rt.leaderAddress)) =>
                    /\ activity'[id].bot
                    /\ activity'[id].botExcutedTime = -1
                    /\ ~Forwarded(id)'
              /\ (activity'[id].bot /\ activity'[id].botExcutedTime < 0
                    /\ ~Forwarded(id)) => ~Forwarded(id)' ]_vars

(* the leader's BUY, stored under an upper-case account, was handed to
   execution, and a later SELL of another account was marked -1 while the
   leader is active *)
C3_Witness ==
    /\ rt.pc = "idle"
    /\ \E r \in leaders : r.isActive /\ r.conditionId = "m1" /\ r.leaderAddress = "a"
    /\ \E i, j \in TradeIds :
          /\ activity[i].userAddress = "A"
          /\ activity[i].side = "BUY"
          /\ activity[i].timestamp = 0
          /\ Forwarded(i)
          /\ activity[j].userAddress = "b"
          /\ activity[j].side = "SELL"
          /\ activity[j].timestamp > LEADER_ELECTION_WINDOW_SECONDS
          /\ activity[j].bot
          /\ activity[j].botExcutedTime = -1
          /\ ~Forwarded(j)

----------------------------------------------------------------------------
(* Properties of a window without a leader and without a BUY (SpecLoop) *)

(* the trade is in the aggregation buffer; it was handed to postOrder *)
InBuffer(id) == \E e \in Range(buffer) : id \in Range(e.trades)
Dispatched(id) == id \in Range(dispatched)

(* C11: a window evaluated while its instrument has no active leader and
   that holds no BUY trade has every one of its trades marked bot = true with
   code -2, one after the other; none of them is accepted, buffered or handed
   to execution, and the router creates no leader record for it. *)
C11_NoBuyWindowSuppressed ==
    [][ /\ (/\ rt.pc = "window" /\ rt' # rt
            /\ ~HasActiveLeader(rt.conditionId)
            /\ \A id \in Range(rt.window) : activity[id].side # "BUY") =>
              /\ rt'.pc = "skip" /\ rt'.code = -2
              /\ rt'.queue = rt.window /\ rt'.window = rt.window
              /\ rt'.acceptedCount = rt.acceptedCount
              /\ leaders' = leaders
        /\ (rt.pc = "skip" /\ rt.code = -2 /\ rt' # rt) =>
              /\ activity'[Head(rt.queue)].bot
              /\ activity'[Head(rt.queue)].botExcutedTime = -2
              /\ leaders' = leaders
              /\ buffer' = buffer /\ dispatched' = dispatched
              /\ IF Tail(rt.queue) # <<>>
                 THEN /\ rt'.pc = "skip" /\ rt'.code = -2
                      /\ rt'.queue = Tail(rt.queue)
                      /\ rt'.acceptedCount = rt.acceptedCount
                      /\ rt'.skippedCount = rt.skippedCount + 1
                 ELSE \A id \in Range(rt.window) :
                         /\ activity'[id].bot
                         /\ activity'[id].botExcutedTime = -2
                         /\ ~InBuffer(id)' /\ ~Dispatched(id)' ]_vars

(* a window of two SELL trades was marked -2 while no leader record exists *)
C11_Witness ==
    /\ rt.pc = "idle"
    /\ leaders = {}
    /\ \A id \in {1, 2} :
          /\ activity[id].present
          /\ activity[id].side = "SELL"
          /\ activity[id].timestamp = 0
          /\ activity[id].bot
          /\ activity[id].botExcutedTime = -2
    /\ rt.skippedCount = 0

----------------------------------------------------------------------------
(* Properties of the poll loop (SpecLoop) *)

(* the stored trade is marked bot = true with a negative reason code *)
Suppressed(id) ==
    activity[id].present /\ activity[id].bot /\ activity[id].botExcutedTime < 0

(* the trade is part of an aggregation the scan found ready or that was
   handed to postOrder *)
Released(id) ==
    \/ \E e \in Range(loop.ready) : id \in Range(e.trades)
    \/ \E e \in Range(released) : id \in Range(e.trades)

(* C12: a trade marked suppressed (bot = true with a negative code) keeps
   its stored mark for ever: no later step of the executor writes its document
   again, no readTempTrades result, window or queue taken afterwards contains
   it, and it is not put in the aggregation buffer, on a list of trades to
   mark, in a ready aggregation or in an order afterwards. *)
C12_SuppressedOnce ==
    [][ \A id \in TradeIds : Suppressed(id) =>
           /\ activity'[id] = activity[id]
           /\ rt'.batch # rt.batch => id \notin Range(rt'.batch)
           /\ rt'.window # rt.window => id \notin Range(rt'.window)
           /\ id \notin Range(rt'.queue)
           /\ id \notin Range(rt'.rest)
           /\ rt'.acceptedCount > rt.acceptedCount => Head(rt.queue) # id
           /\ InBuffer(id)' => InBuffer(id)
           /\ Dispatched(id)' => Dispatched(id)
           /\ Released(id)' => Released(id)
           /\ id \notin Range(loop'.marks) ]_vars

(* trade 1 is suppressed and a later iteration has read a batch made of
   trade 2 alone *)
C12_Witness ==
    /\ Suppressed(1)
    /\ loop.pc = "route"
    /\ rt.pc = "window"
    /\ rt.batch = <<2>>

(* C13: with aggregation enabled an accepted trade is put in the aggregation
   buffer exactly when it is a BUY whose usdcSize is below the minimum; a SELL
   and a BUY at or above the minimum go to doTrading, are handed to postOrder
   after its three lookups and never enter the buffer; with aggregation
   disabled the buffer stays empty. *)
C13_BufferIffSmallBuy ==
    [][ /\ (rt.pc = "handle" /\ rt' # rt) =>
              \A id \in {Head(rt.queue)} :
                 IF /\ rt.aggregation
                    /\ activity[id].side = "BUY"
                    /\ activity[id].usdcSize < TRADE_AGGREGATION_MIN_TOTAL_USD
                 THEN /\ InBuffer(id)'
                      /\ rt'.pc # "order"
                      /\ dispatched' = dispatched
                 ELSE /\ ~InBuffer(id)'
                      /\ rt'.pc = "positions" /\ Head(rt'.queue) = id
        /\ (rt.pc \in {"positions", "userPositions", "balance"} /\ rt' # rt) =>
              /\ rt'.pc = IF rt.pc = "positions" THEN "userPositions"
                          ELSE IF rt.pc = "userPositions" THEN "balance" ELSE "order"
              /\ rt'.queue = rt.queue
              /\ dispatched' = dispatched
              /\ buffer' = buffer
        /\ (rt.pc = "order" /\ rt' # rt) =>
              /\ dispatched' = Append(dispatched, Head(rt.queue))
              /\ buffer' = buffer
        /\ \A id \in TradeIds :
              /\ (InBuffer(id)' /\ ~InBuffer(id)) =>
                    /\ rt.pc = "handle" /\ Head(rt.queue) = id
                    /\ rt.aggregation
                    /\ activity[id].side = "BUY"
                    /\ activity[id].usdcSize < TRADE_AGGREGATION_MIN_TOTAL_USD
              /\ (Dispatched(id)' /\ ~Dispatched(id)) =>
                    /\ rt.pc = "order" /\ Head(rt.queue) = id
                    /\ ~InBuffer(id) /\ ~InBuffer(id)'
                    /\ rt.aggregation =>
                          \/ activity[id].side = "SELL"
                          \/ activity[id].usdcSize >= TRADE_AGGREGATION_MIN_TOTAL_USD
        /\ ~rt.aggregation => buffer' = <<>> ]_vars

(* with aggregation enabled a BUY below the minimum sits in the buffer, and a
   BUY at the minimum and then a SELL below it were handed to postOrder *)
C13_Witness ==
    /\ rt.aggregation
    /\ \E i, j \in TradeIds :
          /\ InBuffer(i) /\ ~Dispatched(i)
          /\ activity[i].side = "BUY"
          /\ activity[i].usdcSize < TRADE_AGGREGATION_MIN_TOTAL_USD
          /\ Dispatched(j) /\ ~InBuffer(j)
          /\ activity[j].side = "SELL"
          /\ activity[j].usdcSize < TRADE_AGGREGATION_MIN_TOTAL_USD

(* the keys of the buffer in a state *)
KeysOf(b) == { b[i].key : i \in DOMAIN b }

(* C14: when the scan comes to a buffer entry whose account is the leader it
   looked up for the instrument, the entry, the store and the ready list are
   left as they are while now - firstTradeTime is below the window, whatever
   the entry's total; from the window on, an entry whose total reaches the
   minimum is appended to the ready list and deleted from the buffer, and is
   then handed to postOrder as one aggregation; an entry below the minimum has
   each of its trades marked bot = true, with no order placed, and is deleted
   after the last one. An aggregation becomes ready in no other way. *)
C14_WindowThenRelease ==
    [][ /\ (loop.pc = "scan" /\ loop' # loop) =>
              LET key == Head(loop.entries)
                  agg == EntryOf(key)
                  leaderAddress == LeaderAddressOf(loop.leaderCache, key[2])
              IN (leaderAddress # "" /\ leaderAddress = ToLowerCase(key[1])) =>
                    IF loop.now - agg.firstTradeTime < WindowMs
                    THEN /\ buffer' = buffer
                         /\ activity' = activity
                         /\ loop'.ready = loop.ready
                         /\ loop'.pc # "scanMark"
                    ELSE IF agg.totalUsdcSize >= TRADE_AGGREGATION_MIN_TOTAL_USD
                    THEN /\ loop'.ready = Append(loop.ready, agg)
                         /\ key \notin KeysOf(buffer')
                         /\ KeysOf(buffer') = KeysOf(buffer) \ {key}
                         /\ activity' = activity
                    ELSE /\ loop'.pc = "scanMark"
                         /\ loop'.mode = "processed"
                         /\ loop'.marks = agg.trades
                         /\ loop'.ready = loop.ready
        /\ (loop.pc = "scanMark" /\ loop.mode = "processed" /\ loop' # loop) =>
              /\ activity'[Head(loop.marks)].bot
              /\ activity'[Head(loop.marks)].botExcutedTime =
                    activity[Head(loop.marks)].botExcutedTime
              /\ loop'.ready = loop.ready
              /\ released' = released /\ dispatched' = dispatched
              /\ IF Tail(loop.marks) = <<>>
                 THEN KeysOf(buffer') = KeysOf(buffer) \ {Head(loop.entries)}
                 ELSE buffer' = buffer /\ loop'.marks = Tail(loop.marks)
        /\ Len(loop'.ready) > Len(loop.ready) =>
              /\ loop.pc = "scan"
              /\ loop.now - EntryOf(Head(loop.entries)).firstTradeTime >= WindowMs
              /\ EntryOf(Head(loop.entries)).totalUsdcSize
                    >= TRADE_AGGREGATION_MIN_TOTAL_USD
        /\ (loop.pc \in {"scan", "scanMark"} /\ loop'.pc \notin {"scan", "scanMark"}) =>
              IF loop'.ready = <<>> THEN loop'.pc = "check" ELSE loop'.pc = "aggMark"
        /\ released' # released =>
              /\ loop.pc = "aggOrder"
              /\ released' = Append(released, Head(loop.ready))
        /\ (loop.pc = "aggDone" /\ loop' # loop) =>
              /\ loop'.ready = Tail(loop.ready)
              /\ \A id \in Range(Head(loop.ready).trades) : activity'[id].bot ]_vars

(* an entry of two BUY trades below the minimum each, whose total reaches it,
   was kept by a scan at its creation time and handed to postOrder as one
   aggregation by a scan after the window *)
C14_Witness ==
    /\ buffer = <<>>
    /\ Len(released) = 1
    /\ released[1].trades = <<1, 2>>
    /\ released[1].totalUsdcSize = TRADE_AGGREGATION_MIN_TOTAL_USD
    /\ activity[1].usdcSize < TRADE_AGGREGATION_MIN_TOTAL_USD
    /\ activity[2].usdcSize < TRADE_AGGREGATION_MIN_TOTAL_USD
    /\ activity[1].bot /\ activity[2].bot

(* C15: when the scan comes to a buffer entry whose account is not the leader
   it looked up for the instrument (another account, or none), whatever the
   entry's age and total, nothing becomes ready: each trade of the entry is
   marked bot = true with -1, the entry is deleted after the last one, and a
   trade so marked is in no ready aggregation and in no order. *)
C15_LeaderChangedDiscards ==
    [][ /\ (loop.pc = "scan" /\ loop' # loop) =>
              LET key == Head(loop.entries)
                  agg == EntryOf(key)
                  leaderAddress == LeaderAddressOf(loop.leaderCache, key[2])
              IN (leaderAddress = "" \/ leaderAddress # ToLowerCase(key[1])) =>
                    /\ loop'.pc = "scanMark"
                    /\ loop'.mode = "skip"
                    /\ loop'.marks = agg.trades
                    /\ loop'.ready = loop.ready
                    /\ buffer' = buffer
        /\ (loop.pc = "scanMark" /\ loop.mode = "skip" /\ loop' # loop) =>
              /\ activity'[Head(loop.marks)].bot
              /\ activity'[Head(loop.marks)].botExcutedTime = -1
              /\ loop'.ready = loop.ready
              /\ released' = released /\ dispatched' = dispatched
              /\ IF Tail(loop.marks) = <<>>
                 THEN KeysOf(buffer') = KeysOf(buffer) \ {Head(loop.entries)}
                 ELSE buffer' = buffer /\ loop'.marks = Tail(loop.marks)
        /\ \A id \in TradeIds :
              (Suppressed(id)' /\ InBuffer(id)') =>
                 /\ loop'.pc = "scanMark" /\ loop'.mode = "skip"
                 /\ id \in Range(EntryOf(Head(loop.entries)).trades)
        /\ \A id \in TradeIds : Suppressed(id)' => ~Released(id)' ]_vars

(* leadership was released while an entry of two trades waited: the scan
   runs after the window, the entry's total reaches the minimum, and yet its
   first trade is marked -1, the second is about to be, and nothing is ready
   or handed to postOrder *)
C15_Witness ==
    /\ loop.pc = "scanMark"
    /\ loop.mode = "skip"
    /\ loop.marks = <<2>>
    /\ ~HasActiveLeader("m1")
    /\ EntryOf(Head(loop.entries)).trades = <<1, 2>>
    /\ EntryOf(Head(loop.entries)).totalUsdcSize >= TRADE_AGGREGATION_MIN_TOTAL_USD
    /\ loop.now - EntryOf(Head(loop.entries)).firstTradeTime >= WindowMs
    /\ Suppressed(1)
    /\ activity[1].botExcutedTime = -1
    /\ loop.ready = <<>>
    /\ released = <<>>

(* the suppression causes whose stored codes are compared *)
NamedCauses == {"no eligible leader candidate", "not leader", "leader changed during buffering"}

(* C16: two suppressed trades whose causes are two different ones among "no
   eligible leader candidate", "not leader" and "leader changed during
   buffering" carry different stored reason codes. *)
C16_DistinctReasonCodes ==
    \A i, j \in TradeIds :
       (/\ Suppressed(i) /\ Suppressed(j)
        /\ cause[i] \in NamedCauses /\ cause[j] \in NamedCauses
        /\ cause[i] # cause[j]) =>
          activity[i].botExcutedTime # activity[j].botExcutedTime

(* C17: stopTradeExecutor only clears the flag; the loop reads the flag at
   the while condition and at the check that ends an iteration and nowhere
   else: with the flag cleared an iteration in flight takes its remaining
   steps, the loop exits at the next of those two places, readTempTrades is
   not started again, nothing happens after the exit, and the exit is reached. *)
C17_CooperativeStop ==
    /\ [][ /\ isRunning' # isRunning =>
                 /\ isRunning /\ ~isRunning'
                 /\ UNCHANGED <<loop, rt, activity, buffer, dispatched, released, leaders>>
           /\ loop'.pc = "stopped" =>
                 \/ loop.pc = "stopped"
                 \/ loop.pc \in {"head", "check"} /\ ~isRunning
           /\ (~isRunning /\ loop.pc \in {"head", "check"} /\ loop' # loop) =>
                 loop'.pc = "stopped"
           /\ (loop.pc # "read" /\ loop'.pc = "read") => isRunning
           /\ loop.pc = "stopped" =>
                 UNCHANGED <<loop, rt, buffer, dispatched, released, isRunning>> ]_vars
    /\ (~isRunning) ~> (loop.pc = "stopped")

(* the flag is cleared while the router is about to hand a trade to
   postOrder *)
C17_Witness ==
    /\ ~isRunning
    /\ loop.pc = "route"
    /\ rt.pc = "order"

----------------------------------------------------------------------------
(* Properties of aggregateTradeActivities (SpecSameKey, SpecFillId, SpecNoTx) *)

(* the sum of f[i] over the indices i in S *)
RECURSIVE SumOver(_, _)
SumOver(f, S) ==
    IF S = {} THEN 0
    ELSE LET i == CHOOSE j \in S : TRUE IN f[i] + SumOver(f, S \ {i})

Magnitude(x) == IF x >= 0 THEN x ELSE 0 - x

(* the rows of the batch that belong to the group of the output trade g *)
RowsOfGroup(g) ==
    { i \in DOMAIN rows :
        /\ rows[i].transactionHash = g.transactionHash
        /\ rows[i].conditionId = g.conditionId
        /\ rows[i].asset = g.asset
        /\ rows[i].side = g.side
        /\ rows[i].type = g.type }

(* the rows among S that are counted: those without a fill id and, for each
   fill id, the first row of S that carries it *)
CountedRows(S) ==
    { i \in S :
        \/ findActivityId(rows[i]) = ""
        \/ \A j \in S : j < i => findActivityId(rows[j]) # findActivityId(rows[i]) }

SizeOfRows == [i \in DOMAIN rows |-> Magnitude(toNumber(rows[i].size))]
UsdcOfRows == [i \in DOMAIN rows |-> Magnitude(toNumber(rows[i].usdcSize))]

(* the value with its sign flipped *)
Negated(value) ==
    CASE value.t = "number" -> Num(0 - value.n)
      [] value.t = "numeric string" -> NumStr(0 - value.n)
      [] OTHER -> value

(* one trade comes out of a batch of rows of one key; its size and usdcSize
   are the sums of the absolute values over the counted rows; flipping the
   sign of a size or of a usdcSize changes nothing *)
SameKeySums ==
    /\ Len(results) = 1
    /\ results[1].size = SumOver(SizeOfRows, CountedRows(DOMAIN rows))
    /\ results[1].usdcSize = SumOver(UsdcOfRows, CountedRows(DOMAIN rows))
    /\ \A i \in DOMAIN rows :
          /\ aggregateTradeActivities([rows EXCEPT ![i].size = Negated(@)]) = results
          /\ aggregateTradeActivities([rows EXCEPT ![i].usdcSize = Negated(@)]) = results

(* price times size is usdcSize *)
PriceTimesSize(g) == g.price.num * g.size = g.usdcSize * g.price.den

(* C18, as stated: for a batch of rows that share transactionHash,
   conditionId, asset, side and type, the output is one trade whose size is
   the sum of |size| and whose usdcSize is the sum of |usdcSize| over the
   counted rows, with price times size equal to usdcSize, and negating a
   row's size or usdcSize leaves the output unchanged. *)
C18_AsStated ==
    results # <<>> => SameKeySums /\ PriceTimesSize(results[1])

(* C18, amended: the same, with price times size equal to usdcSize whenever
   the summed size is positive. *)
C18_SignFreeSums ==
    results # <<>> =>
       /\ SameKeySums
       /\ results[1].size > 0 => PriceTimesSize(results[1])

(* three rows of one key were aggregated: sizes 1 and -2, the second with the
   usdcSize "-2", and a third row that added to the sums *)
C18_Witness ==
    /\ Len(rows) = 3
    /\ Len(results) = 1
    /\ rows[1].size = Num(1)
    /\ rows[2].size = Num(-2)
    /\ rows[2].usdcSize = NumStr(-2)
    /\ results[1].size = 4
    /\ results[1].usdcSize = 4
    /\ results[1].fillCount = 3

(* C19: in every group, a row whose fill id was seen earlier in the group is
   dropped, leaving the sums and the count as they were, and a row without a
   fill id always counts: fillCount is the number of distinct fill ids of the
   group's rows plus the number of its rows without one, and size and
   usdcSize are the sums over the rows that count. *)
C19_DedupeByFillId ==
    \A k \in DOMAIN results :
       LET S == RowsOfGroup(results[k])
           withId == { i \in S : findActivityId(rows[i]) # "" }
       IN /\ results[k].fillCount =
                Cardinality({ findActivityId(rows[i]) : i \in withId })
                   + Cardinality(S \ withId)
          /\ results[k].fillCount = Cardinality(CountedRows(S))
          /\ results[k].size = SumOver(SizeOfRows, CountedRows(S))
          /\ results[k].usdcSize = SumOver(UsdcOfRows, CountedRows(S))

(* a group of three rows: the id f1, the same id found in matchId, and a row
   without an id; the second row is dropped and two fills are counted *)
C19_Witness ==
    /\ Len(rows) = 3
    /\ Len(results) = 1
    /\ findActivityId(rows[1]) = "f1"
    /\ rows[2].ids # rows[1].ids
    /\ findActivityId(rows[2]) = "f1"
    /\ rows[2].size = Num(2)
    /\ findActivityId(rows[3]) = ""
    /\ results[1].fillCount = 2
    /\ results[1].size = toNumber(rows[1].size) + toNumber(rows[3].size)

(* C20: the rows without a transactionHash are never merged: a batch with n
   of them yields n output trades without a transactionHash, each with
   fillCount 1 and the size of its one row, in the rows' order, whatever else
   the rows have in common and wherever they stand in the batch. *)
C20_NoTxNeverMerged ==
    results # <<>> =>
       LET noTxRows == SelectSeq(rows, LAMBDA r : r.transactionHash = "")
           noTxResults == SelectSeq(results, LAMBDA g : g.transactionHash = "")
       IN /\ Len(noTxResults) = Len(noTxRows)
          /\ \A k \in DOMAIN noTxResults :
                /\ noTxResults[k].fillCount = 1
                /\ noTxResults[k].size = Magnitude(toNumber(noTxRows[k].size))
                /\ noTxResults[k].side = noTxRows[k].side
                /\ noTxResults[k].ids = noTxRows[k].ids

(* two equal rows without a transactionHash around a row with one: three
   trades come out *)
C20_Witness ==
    /\ Len(rows) = 3
    /\ rows[1].transactionHash = ""
    /\ rows[2].transactionHash = "0xh1"
    /\ rows[3] = rows[1]
    /\ Len(results) = 3
    /\ results[3].fillCount = 1

----------------------------------------------------------------------------
(* Properties of getBuyDecision under the default thresholds (SpecBuyDefault) *)

(* a call of getBuyDecision has returned *)
BuyReturned == args.function = "getBuyDecision" /\ ret.returned

(* the price p is above, or at least, n hundredths *)
Above(p, n) == p.num * 100 > n * p.den
AtLeast(p, n) == p.num * 100 >= n * p.den

Rejected(d) == d.shouldBuy = FALSE /\ d.maxAcceptablePrice = NullValue
AcceptedAt(d, cap, zone) ==
    d.shouldBuy = TRUE /\ d.maxAcceptablePrice = cap /\ d.reason = zone

(* C21: with the default thresholds a price that is not finite, is at most 0
   or is above 0.95 is rejected; every other price is accepted, in the high
   zone with cap price + 0.01 when 0.80 <= price <= 0.95, in the combat zone
   with cap price + 0.03 when 0.20 <= price < 0.80, and in the zebra zone
   with cap price x 1.2 when price < 0.20. *)
C21_DefaultZones ==
    BuyReturned =>
        LET p == Number(args.originalExecutedPrice)
            d == ret.value
        IN  IF ~IsFinite(p) \/ p.num <= 0 \/ Above(p, 95)
            THEN Rejected(d)
            ELSE /\ AtLeast(p, 80) =>
                        AcceptedAt(d, Finite(p.num * 100 + p.den, p.den * 100), "high zone")
                 /\ AtLeast(p, 20) /\ ~AtLeast(p, 80) =>
                        AcceptedAt(d, Finite(p.num * 100 + 3 * p.den, p.den * 100), "combat zone")
                 /\ ~AtLeast(p, 20) =>
                        AcceptedAt(d, Finite(p.num * 12, p.den * 10), "zebra zone")

(* the boundary 0.95 was accepted in the high zone with cap 0.96 *)
C21_Witness ==
    /\ BuyReturned
    /\ Number(args.originalExecutedPrice) = Finite(95, 100)
    /\ ret.value = [shouldBuy |-> TRUE, maxAcceptablePrice |-> Finite(96, 100),
                    reason |-> "high zone"]

(* the slippage or the multiplier of the zone that accepted the price *)
ZoneAllowance(config, reason) ==
    CASE reason = "high zone" -> OrDefault(config, "highZoneAbsSlippage", Finite(1, 100))
      [] reason = "combat zone" -> OrDefault(config, "combatZoneAbsSlippage", Finite(3, 100))
      [] OTHER -> OrDefault(config, "zebraZoneMaxMultiplier", Finite(12, 10))

(* C22 as stated: under every configuration whose absolute ceiling is finite
   and positive, an accepted decision's maxAcceptablePrice is at most the
   ceiling (0.99 when none is configured), and a rejected decision carries no
   maxAcceptablePrice. *)
C22_AsStated ==
    BuyReturned =>
        LET d == ret.value
            ceiling == OrDefault(args.config, "absoluteMaxAcceptablePriceCap", Finite(99, 100))
        IN  (IsFinite(ceiling) /\ ceiling.num > 0) =>
                IF d.shouldBuy
                THEN GreaterEq(ceiling, d.maxAcceptablePrice)
                ELSE d.maxAcceptablePrice = NullValue

(* C22: under every configuration whose absolute ceiling is finite and
   positive, an accepted decision's maxAcceptablePrice is at most the ceiling
   (0.99 when none is configured) when the slippage or multiplier of the zone
   that accepted the price is not NaN, and is NaN when it is; a rejected
   decision carries no maxAcceptablePrice. *)
C22_CeilingBoundsCap ==
    BuyReturned =>
        LET d == ret.value
            ceiling == OrDefault(args.config, "absoluteMaxAcceptablePriceCap", Finite(99, 100))
        IN  (IsFinite(ceiling) /\ ceiling.num > 0) =>
                IF d.shouldBuy
                THEN IF ZoneAllowance(args.config, d.reason) = NaN
                     THEN d.maxAcceptablePrice = NaN
                     ELSE GreaterEq(ceiling, d.maxAcceptablePrice)
                ELSE d.maxAcceptablePrice = NullValue

(* 0.95 + 0.1 under a death zone of 1.0 was accepted and cut to the default
   ceiling 0.99 *)
C22_Witness ==
    /\ BuyReturned
    /\ args.originalExecutedPrice = Finite(95, 100)
    /\ args.config = Config([deathZonePrice |-> Finite(1, 1),
                             highZoneAbsSlippage |-> Finite(1, 10)])
    /\ ret.value = [shouldBuy |-> TRUE, maxAcceptablePrice |-> Finite(99, 100),
                    reason |-> "high zone"]

----------------------------------------------------------------------------
(* Properties of calculateOrderSize (SpecSize) *)

(* a call of calculateOrderSize has returned *)
SizeReturned == args.function = "calculateOrderSize" /\ ret.returned

(* max(0, maxPositionSizeUSD - currentPositionNotional) *)
Headroom == MathMax(Minus(args.config.maxPositionSizeUSD, args.currentPositionNotional), Zero)

(* the amount after the order clamp and the position clamp *)
ClampedAmount ==
    ClampPosition(ClampOrder(Multiplied(args.config, args.signalNotional),
                             args.config.maxOrderSizeUSD),
                  args.config, args.currentPositionNotional)

(* the test configuration: PERCENTAGE 10 %, orders from 1 to 100 *)
BaseConfig ==
    [strategy |-> "PERCENTAGE", copySize |-> Finite(10, 1), adaptivePercent |-> Finite(20, 1),
     maxOrderSizeUSD |-> Finite(100, 1), minOrderSizeUSD |-> Finite(1, 1),
     maxPositionSizeUSD |-> Missing, tradeMultiplier |-> Missing, tieredMultipliers |-> <<>>]

(* C23: under a valid configuration finalAmount lies in [0, maxOrderSizeUSD],
   and cappedByMax is set exactly when base amount x multiplier exceeded
   maxOrderSizeUSD. *)
C23_WithinOrderLimit ==
    SizeReturned =>
        /\ GreaterEq(ret.value.finalAmount, Zero)
        /\ GreaterEq(args.config.maxOrderSizeUSD, ret.value.finalAmount)
        /\ ret.value.cappedByMax <=>
               Greater(Times(ret.value.baseAmount,
                             getTradeMultiplier(args.config, args.signalNotional)),
                       args.config.maxOrderSizeUSD)

(* a signal of 2000 at 10 % was cut from 200 to the order limit 100 *)
C23_Witness ==
    /\ SizeReturned
    /\ args.config = BaseConfig
    /\ args.signalNotional = Finite(2000, 1)
    /\ args.availableBalance = Finite(10000, 1)
    /\ ret.value.finalAmount = Finite(100, 1)
    /\ ret.value.cappedByMax

(* C24: when maxPositionSizeUSD is configured, finalAmount never exceeds the
   headroom max(0, maxPositionSizeUSD - currentPositionNotional). *)
C24_WithinHeadroom ==
    (SizeReturned /\ Configured(args.config.maxPositionSizeUSD)) =>
        GreaterEq(Headroom, ret.value.finalAmount)

(* C25: when the amount after the order and position clamps is below
   minOrderSizeUSD, finalAmount is exactly minOrderSizeUSD if
   availableBalance x 0.99 >= minOrderSizeUSD and 0 otherwise, and
   belowMinimum is set in both cases; belowMinimum is not set when the
   clamped amount was at or above the minimum. *)
C25_MinimumOrNothing ==
    SizeReturned =>
        IF Less(ClampedAmount, args.config.minOrderSizeUSD)
        THEN /\ ret.value.belowMinimum
             /\ ret.value.finalAmount =
                    IF GreaterEq(Times(args.availableBalance, Finite(99, 100)),
                                 args.config.minOrderSizeUSD)
                    THEN args.config.minOrderSizeUSD
                    ELSE Zero
        ELSE ~ret.value.belowMinimum

(* a signal of 5 at 10 % gave 0.5, below the minimum 1, and a balance of
   1000 raised it to exactly 1 *)
C25_Witness ==
    /\ SizeReturned
    /\ args.config = BaseConfig
    /\ args.signalNotional = Finite(5, 1)
    /\ args.availableBalance = Finite(1000, 1)
    /\ ClampedAmount = Finite(1, 2)
    /\ ret.value.finalAmount = Finite(1, 1)
    /\ ret.value.belowMinimum

----------------------------------------------------------------------------
(* Properties of establishLeader over a store that may fail (SpecFail) *)

(* the instance's call leaves the create, and leaves the re-read, in this step *)
CreateStep(p) == pc[p] = "est_create" /\ pc'[p] # "est_create"
RereadStep(p) == pc[p] = "est_dup" /\ pc'[p] # "est_dup"

(* C26: a call of establishLeader attempts the create at most once and never
   again; a create rejected by a unique index is not raised, the call
   returns the active leader it then re-reads (nothing when there is none);
   any other rejection of the store is raised, and the call has created no
   record. *)
C26_OneCreateAttempt ==
    [][\A p \in Procs :
         /\ hist'[p].creates <= 1
         /\ pc'[p] = "est_create" => pc[p] \in {"idle", "est_create"}
         /\ CreateStep(p) =>
               IF hist'[p].kind = "error"
               THEN leaders' = leaders /\ pc'[p] = "idle"
               ELSE IF ViolatedIndexes(NewLeaderDoc(estWinner[p])) # {}
               THEN hist'[p].kind = "pending" /\ pc'[p] = "est_dup" /\ leaders' = leaders
               ELSE /\ hist'[p].kind = "cand"
                    /\ leaders' = leaders \cup {NewLeaderDoc(estWinner[p])}
         /\ RereadStep(p) =>
               /\ leaders' = leaders
               /\ pc'[p] = "idle"
               /\ \/ hist'[p].kind = "error"
                  \/ /\ HasActiveLeader(estWinner[p].conditionId)
                     /\ hist'[p].kind = "cand"
                     /\ hist'[p].addr = getActiveLeader(estWinner[p].conditionId).leaderAddress
                  \/ /\ ~HasActiveLeader(estWinner[p].conditionId)
                     /\ hist'[p].kind = "null"]_vars

(* one call was rejected at its create and raised the error; the other met
   a unique index at its only create and returned the leader it re-read *)
C26_Witness ==
    /\ hist["p1"].op = "establishLeader"
    /\ hist["p1"].step = "create"
    /\ hist["p1"].kind = "error"
    /\ hist["p1"].creates = 1
    /\ hist["p2"].op = "establishLeader"
    /\ hist["p2"].step = "reread"
    /\ hist["p2"].kind = "cand"
    /\ hist["p2"].creates = 1

----------------------------------------------------------------------------
(* Properties of the leader's lifecycle under the router (SpecLoop) *)

(* the router's establishLeader leaves its create in this step *)
RouterCreateStep == pc["p1"] = "est_create" /\ pc'["p1"] # "est_create"

(* the instrument had a leader that was deactivated *)
HadLeader(c) == \E r \in leaders : r.conditionId = c /\ ~r.isActive

(* the account of a BUY of the window that no BUY of the window exceeds *)
LargestBuyAccount(a, window) ==
    \E id \in Range(window) :
        /\ activity[id].side = "BUY"
        /\ ToLowerCase(activity[id].userAddress) = a
        /\ \A other \in Range(window) :
              activity[other].side = "BUY" => activity[other].usdcSize <= activity[id].usdcSize

(* C27: once the active leader of an instrument is deactivated,
   getActiveLeader returns nothing for it, and the next window with a BUY that
   is routed while it has no active leader makes the account of the window's
   largest BUY the new active leader. *)
C27_LeaderLifecycle ==
    [][ /\ \A r \in leaders :
              (r.isActive /\ r \notin leaders' /\ Deactivated(r) \in leaders') =>
                  ~HasActiveLeader(r.conditionId)'
        /\ \A c \in {rt.conditionId} :
              (RouterCreateStep /\ HadLeader(c) /\ ~HasActiveLeader(c)) =>
                  /\ HasActiveLeader(c)'
                  /\ \A r \in ActiveLeaders(c)' :
                        /\ LargestBuyAccount(r.leaderAddress, rt.window)
                        /\ rt'.leaderAddress = r.leaderAddress ]_vars

----------------------------------------------------------------------------
(* Properties of the order of processTradesByLeader (SpecOrder) *)

(* x does not sort after y: by ascending timestamp, then descending usdcSize *)
TimeThenSize(x, y) ==
    \/ getTradeTimestamp(x) < getTradeTimestamp(y)
    \/ /\ getTradeTimestamp(x) = getTradeTimestamp(y)
       /\ activity[x].usdcSize >= activity[y].usdcSize

(* every element of the sequence does not sort after the ones behind it *)
InOrder(q) == \A i, j \in DOMAIN q : i < j => TimeThenSize(q[i], q[j])

(* the trade is marked in progress or finalized *)
Taken(id) == activity[id].bot \/ activity[id].botExcutedTime # 0

(* C28: the trades of an instrument are sorted by ascending timestamp, ties
   by descending notional, and cut into consecutive disjoint windows that
   cover them all: the window under evaluation starts at the earliest trade
   not yet in a window, at time T, and holds exactly the remaining trades with
   timestamp <= T + 2; the trades behind it are later than T + 2. *)
C28_ConsecutiveWindows ==
    rt.pc \notin {"idle", "find"} =>
        LET remaining == rt.window \o rt.sorted
            T == getTradeTimestamp(rt.window[1])
        IN  /\ rt.window # <<>>
            /\ InOrder(remaining)
            /\ \A i, j \in DOMAIN remaining : i # j => remaining[i] # remaining[j]
            /\ \A id \in Range(remaining) : T <= getTradeTimestamp(id)
            /\ \A id \in Range(rt.window) : getTradeTimestamp(id) <= T + 2
            /\ \A x, y \in Range(rt.window) : getTradeTimestamp(x) - getTradeTimestamp(y) <= 2
            /\ \A id \in Range(rt.sorted) : getTradeTimestamp(id) > T + 2
            /\ \A id \in Range(remaining) : activity[id].conditionId = rt.conditionId
            /\ \A id \in Range(rt.batch) :
                  (activity[id].conditionId = rt.conditionId /\ id \notin Range(remaining)) =>
                      Taken(id)

(* a window of two trades two time units apart is under evaluation, and the
   trade behind it is one time unit after the second: within the election
   window of the second, outside the window of the first *)
C28_Witness ==
    /\ rt.pc = "window"
    /\ Len(rt.window) = 2
    /\ getTradeTimestamp(rt.window[2]) = getTradeTimestamp(rt.window[1]) + 2
    /\ Len(rt.sorted) = 1
    /\ getTradeTimestamp(rt.sorted[1]) = getTradeTimestamp(rt.window[2]) + 1

(* the router accepts the trade id: the call of recordLeaderTrade in the loop
   over leaderTrades *)
Accepts(id) == rt.pc = "accept" /\ rt'.pc = "handle" /\ Head(rt.queue) = id

(* the trades of the leader that the window still has to accept after the
   head of the queue *)
StillToAccept == Range(Tail(rt.queue))

(* x before y by side, then by descending notional *)
SideThenSize(x, y) ==
    \/ activity[x].side = "BUY" /\ activity[y].side = "SELL"
    \/ /\ activity[x].side = activity[y].side
       /\ activity[x].usdcSize >= activity[y].usdcSize

(* x before y by ascending timestamp, then by side, then by descending notional *)
TimeThenSideThenSize(x, y) ==
    \/ getTradeTimestamp(x) < getTradeTimestamp(y)
    \/ getTradeTimestamp(x) = getTradeTimestamp(y) /\ SideThenSize(x, y)

(* the active leader record of the instrument carries the trade's time *)
Recorded(c, id) ==
    /\ HasActiveLeader(c)
    /\ \A r \in ActiveLeaders(c) :
          SameAccount(id, r.leaderAddress) /\ r.lastTradeTimestamp >= getTradeTimestamp(id)

(* C29 as stated: within one window the leader's trades are accepted in
   BUY-before-SELL order and then by descending notional, so that no SELL of
   the leader is accepted before a BUY of the leader of the same window, and
   leader activity is recorded for each accepted trade. *)
C29_BuyBeforeSell ==
    [][ \A id \in TradeIds : \A c \in {rt.conditionId} :
          Accepts(id) =>
              /\ \A other \in StillToAccept : SideThenSize(id, other)
              /\ Recorded(c, id)' ]_vars

(* C29, amended: within one window the leader's trades, and only they, are
   accepted by ascending timestamp, then BUY before SELL among trades of equal
   timestamp, then by descending notional; no SELL of the leader is accepted
   before a BUY of the leader of the same window whose timestamp is not
   later; and leader activity is recorded for each accepted trade. *)
C29_LeaderOrder ==
    [][ \A id \in TradeIds : \A c \in {rt.conditionId} :
          Accepts(id) =>
              /\ id \in Range(rt.window) /\ SameAccount(id, rt.leaderAddress)
              /\ \A other \in StillToAccept :
                    /\ other \in Range(rt.window) /\ SameAccount(other, rt.leaderAddress)
                    /\ TimeThenSideThenSize(id, other)
                    /\ (activity[id].side = "SELL" /\ activity[other].side = "BUY") =>
                          getTradeTimestamp(id) < getTradeTimestamp(other)
              /\ \A other \in Range(rt.window) :
                    SameAccount(other, rt.leaderAddress) =>
                        other = id \/ other \in StillToAccept \/ Forwarded(other)
              /\ Recorded(c, id)' ]_vars

(* a BUY of the leader was accepted and recorded ahead of the leader's larger
   SELL of the same timestamp in the window *)
C29_Witness ==
    /\ rt.pc = "handle"
    /\ Len(rt.queue) = 2
    /\ activity[rt.queue[1]].side = "BUY"
    /\ activity[rt.queue[2]].side = "SELL"
    /\ getTradeTimestamp(rt.queue[1]) = getTradeTimestamp(rt.queue[2])
    /\ activity[rt.queue[1]].usdcSize < activity[rt.queue[2]].usdcSize
    /\ Recorded(rt.conditionId, rt.queue[1])

(* the step puts the trade in the aggregation buffer or hands it to postOrder *)
Dispatches(id) == Forwarded(id)' /\ ~Forwarded(id)

(* C30: within one call of the router the trades of one instrument are
   evaluated in non-decreasing timestamp order: when a trade is accepted, and
   when it is buffered or handed to execution, no trade of the same instrument
   that was buffered or handed to execution before has a larger timestamp, be
   it of the same window or of an earlier one. *)
C30_TimestampOrder ==
    [][ \A id, other \in TradeIds :
          ( /\ Accepts(id) \/ Dispatches(id)
            /\ Forwarded(other)
            /\ activity[other].conditionId = activity[id].conditionId ) =>
              getTradeTimestamp(other) <= getTradeTimestamp(id) ]_vars

(* the call has ended after the leader's SELL was handed to execution ahead
   of the leader's later BUY of the same window *)
C30_Witness ==
    /\ rt.pc = "idle"
    /\ \E x, y \in TradeIds :
          /\ activity[x].side = "SELL" /\ activity[y].side = "BUY"
          /\ activity[x].conditionId = activity[y].conditionId
          /\ getTradeTimestamp(y) = getTradeTimestamp(x) + 1
          /\ Len(dispatched) >= 1 /\ dispatched[1] = x
          /\ Forwarded(y)

----------------------------------------------------------------------------
(* Properties of the price of an aggregated trade (SpecPriced) *)

(* the last row of the batch that the group of the output trade g counted *)
LastCounted(g) ==
    LET counted == CountedRows(RowsOfGroup(g))
    IN CHOOSE i \in counted : \A j \in counted : j <= i

(* C31: the price of an aggregated trade is its summed usdcSize divided by
   its summed size when the summed size is positive; when the summed size is
   zero it is the latest raw price of the group, the price of the last row
   the group counted, for a group of any number of rows. *)
C31_LatestPrice ==
    \A k \in DOMAIN results :
       LET g == results[k]
       IN IF g.size > 0
          THEN g.price = Ratio(g.usdcSize, g.size)
          ELSE g.price = Ratio(toNumber(rows[LastCounted(g)].price), 1)

----------------------------------------------------------------------------
(* Properties of the outcome of processTradesByLeader (SpecLoop) *)

(* processTradesByLeader returns with this step *)
Returns == rt.pc \notin {"idle", "find"} /\ rt'.pc = "idle"

(* the counts it returns: the counters before its last step, and the skip
   that step counts when it is one *)
ReturnedCounts ==
    [acceptedCount |-> rt.acceptedCount,
     skippedCount |-> rt.skippedCount + (IF rt.pc = "skip" THEN 1 ELSE 0)]

(* C32: when processTradesByLeader returns, every trade of its batch was
   either accepted (buffered or handed to execution) or suppressed (marked
   bot = true with a negative code), never both and never neither; the
   returned acceptedCount and skippedCount count the two sets, so their sum is
   the number of trades of the batch. *)
C32_AcceptedOrSuppressed ==
    [][ Returns =>
          /\ \A id \in Range(rt.batch) : Forwarded(id)' # Suppressed(id)'
          /\ ReturnedCounts.acceptedCount =
                Cardinality({ id \in Range(rt.batch) : Forwarded(id)' })
          /\ ReturnedCounts.skippedCount =
                Cardinality({ id \in Range(rt.batch) : Suppressed(id)' })
          /\ ReturnedCounts.acceptedCount + ReturnedCounts.skippedCount = Len(rt.batch) ]_vars

(* a call has returned after it accepted the leader's trade of a window and
   suppressed the other account's trade of the same window *)
C32_Witness ==
    /\ rt.pc = "idle"
    /\ \E x, y \in TradeIds :
          /\ Forwarded(x) /\ Suppressed(y)
          /\ activity[x].conditionId = activity[y].conditionId
          /\ activity[x].timestamp = activity[y].timestamp
          /\ activity[x].userAddress # activity[y].userAddress
          /\ activity[y].botExcutedTime = -1

----------------------------------------------------------------------------
(* Properties of the founding of a leader by the router alone (SpecOrder) *)

(* the router is between its call of establishLeader and the leader loops *)
Founding(r) == r.pc \in {"establishing", "reread"}

(* the trade is the BUY the active leader record r was created from, and it
   is in the queue of trades to accept *)
FoundingQueued(r, id) ==
    /\ activity[id].side = "BUY"
    /\ SameAccount(id, r.leaderAddress)
    /\ activity[id].transactionHash = r.initialTransactionHash
    /\ activity[id].timestamp = r.initialTradeTimestamp

(* C33: a window with a BUY that the router evaluates while its instrument
   has no active leader, no other instance writing the store, ends with an
   active leader for the instrument and with the founding BUY accepted,
   whatever transaction hashes the stored leader records carry. *)
C33_WindowFoundsLeader ==
    [][ \A c \in {rt.conditionId} :
          (Founding(rt) /\ ~Founding(rt')) =>
              /\ HasActiveLeader(c)'
              /\ rt'.pc = "accept"
              /\ \A r \in ActiveLeaders(c)' :
                    \E id \in Range(rt'.queue) : FoundingQueued(r, id)' ]_vars

----------------------------------------------------------------------------
(* Properties of cleanupStaleLeaders against concurrent leader trades (SpecStale) *)

(* the cleanup's updateMany is applied in this step *)
StaleUpdateStep(p) == pc[p] = "stale_update" /\ pc'[p] # "stale_update"

(* the record is not older than the cutoff of the cleanup in progress *)
Fresh(p, r) == r.lastTradeTimestamp * 1000 >= staleCutoff[p]

(* C34: cleanupStaleLeaders never deactivates a leader whose
   lastTradeTimestamp is not older than the cutoff at the moment of the
   deactivating update: a leader that recordLeaderTrade refreshed after the
   cleanup's find stays active. *)
C34_RefreshedStaysActive ==
    [][ \A p \in Procs :
          StaleUpdateStep(p) =>
             \A r \in leaders : (r.isActive /\ Fresh(p, r)) => r \in leaders' ]_vars

----------------------------------------------------------------------------
(* Properties of the marks of forwarded trades (SpecLoop) *)

(* the orders the trade is part of: the calls of postOrder for the trade
   alone and for an aggregation that holds it *)
OrdersOf(id) ==
    Cardinality({ i \in DOMAIN dispatched : dispatched[i] = id })
    + Cardinality({ i \in DOMAIN released : id \in Range(released[i].trades) })

(* C35: a trade is part of at most one order. It is marked in progress
   (botExcutedTime # 0) before it is handed to postOrder, alone or inside an
   aggregation, and when it is stored in the aggregation buffer; a trade that
   is marked keeps a mark, and no later readTempTrades selects it. *)
C35_AtMostOneOrder ==
    [][ \A id \in TradeIds :
          /\ (Dispatched(id)' /\ ~Dispatched(id)) => activity[id].botExcutedTime # 0
          /\ (InBuffer(id)' /\ ~InBuffer(id)) => activity'[id].botExcutedTime # 0
          /\ (OrdersOf(id)' > OrdersOf(id)) => activity[id].botExcutedTime # 0
          /\ Taken(id) => Taken(id)'
          /\ (Taken(id) /\ rt'.batch # rt.batch) => id \notin Range(rt'.batch)
          /\ OrdersOf(id)' <= 1 ]_vars

(* two buffered trades were handed to postOrder as one aggregation and
   finalized, and a later iteration of the loop has read no trade *)
C35_Witness ==
    /\ Len(released) = 1
    /\ Len(released[1].trades) = 2
    /\ \A id \in Range(released[1].trades) :
          activity[id].bot /\ activity[id].botExcutedTime = 1 /\ OrdersOf(id) = 1
    /\ loop.pc = "route"
    /\ rt.pc = "idle"
    /\ rt.batch = <<>>

(***************************************************************************)
(* Properties of the window of a buffer entry (SpecLoop)                   *)
(***************************************************************************)

(* the entry of a key in a buffer *)
EntryIn(b, key) == b[CHOOSE i \in DOMAIN b : b[i].key = key]

(* q begins with p *)
IsPrefix(p, q) == Len(p) <= Len(q) /\ SubSeq(q, 1, Len(p)) = p

(* the scan that started at loop.now has gone through the whole buffer *)
ScanEnds == loop.pc \in {"scan", "scanMark"} /\ loop'.pc \notin {"scan", "scanMark"}

(* C36: an entry of the buffer keeps its firstTradeTime for as long as it is
   in the buffer, whatever trades are added to it, and trades are only added
   at its end; an entry enters the buffer with one trade and the current time
   as firstTradeTime; when the scan comes to an entry with
   now - firstTradeTime at or beyond the window, the entry is deleted from the
   buffer, or its trades are handed over to be marked and it is deleted after
   the last mark; and when a scan ends, no entry of the buffer has
   now - firstTradeTime at or beyond the window for the scan's now. *)
C36_WindowStartKept ==
    [][ /\ \A key \in KeysOf(buffer) \cap KeysOf(buffer') :
              /\ EntryIn(buffer', key).firstTradeTime = EntryIn(buffer, key).firstTradeTime
              /\ IsPrefix(EntryIn(buffer, key).trades, EntryIn(buffer', key).trades)
        /\ \A key \in KeysOf(buffer') \ KeysOf(buffer) :
              /\ EntryIn(buffer', key).firstTradeTime = clock
              /\ Len(EntryIn(buffer', key).trades) = 1
        /\ (loop.pc = "scan" /\ loop' # loop) =>
              LET key == Head(loop.entries)
                  agg == EntryOf(key)
              IN (loop.now - agg.firstTradeTime >= WindowMs) =>
                    \/ key \notin KeysOf(buffer')
                    \/ loop'.pc = "scanMark" /\ loop'.marks = agg.trades
        /\ (loop.pc = "scanMark" /\ loop' # loop /\ Tail(loop.marks) = <<>>) =>
              Head(loop.entries) \notin KeysOf(buffer')
        /\ ScanEnds =>
              \A i \in DOMAIN buffer' :
                  loop.now - buffer'[i].firstTradeTime < WindowMs ]_vars

(* a scan that started a window after the creation of an entry comes to it,
   and the entry has got a second trade since its creation *)
C36_Witness ==
    /\ loop.pc = "scan"
    /\ Head(loop.entries) \in KeysOf(buffer)
    /\ Len(EntryOf(Head(loop.entries)).trades) = 2
    /\ EntryOf(Head(loop.entries)).firstTradeTime = 0
    /\ loop.now = WindowMs

(***************************************************************************)
(* Properties of the end of buffered trades (SpecLive)                     *)
(***************************************************************************)

(* the window of the entry that holds the trade ends within the instants of
   the model *)
WindowEnds(id) ==
    \E e \in Range(buffer) :
        id \in Range(e.trades) /\ e.firstTradeTime + WindowMs <= MaxClock * 1000

(* C37: while the executor is not stopped and its awaits complete, a trade
   that is in the aggregation buffer (with a window that ends within the
   instants of the model) is eventually marked bot = true. *)
C37_BufferedFinalized ==
    \A id \in LoopTradeIds : (InBuffer(id) /\ WindowEnds(id)) ~> activity[id].bot

(* a trade that waited in the buffer for its window has been marked bot = true
   with no order placed, and its entry is gone *)
C37_Witness ==
    /\ buffer = <<>>
    /\ activity[1].present
    /\ activity[1].bot
    /\ activity[1].botExcutedTime = BOT_EXECUTED_TIME_BUFFERED
    /\ released = <<>>
    /\ clock >= WindowMs
    /\ loop.pc = "check"

(***************************************************************************)
(* Properties of the trades left by a stopped executor (SpecStop)          *)
(***************************************************************************)

(* the trade was handed to postOrder, alone or in an aggregation; postOrder
   and the update after it finish the trade before the loop looks at
   isRunning again *)
HandedOver(id) == Dispatched(id) \/ \E e \in Range(released) : id \in Range(e.trades)

(* readTempTrades of a later run selects the trade *)
Eligible(id) == ~activity[id].bot /\ activity[id].botExcutedTime = 0

(* C38: once the poll loop has ended after stopTradeExecutor, every stored
   trade that was not handed to postOrder is marked bot = true or is still
   selected by readTempTrades (bot = false and botExcutedTime = 0); so is a
   trade that was waiting in the aggregation buffer. *)
C38_StoppedLeavesNoneStranded ==
    loop.pc = "stopped" =>
        \A id \in LoopTradeIds :
            (activity[id].present /\ ~HandedOver(id)) =>
                activity[id].bot \/ Eligible(id)

(***************************************************************************)
(* Properties of the smallest order of calculateOrderSize (SpecSize)       *)
(***************************************************************************)

(* C39: under a valid configuration finalAmount is 0 or at least
   minOrderSizeUSD, also when the amount was reduced to the balance ceiling
   availableBalance x 0.99. *)
C39_ZeroOrAtLeastMinimum ==
    SizeReturned =>
        \/ ret.value.finalAmount = Zero
        \/ GreaterEq(ret.value.finalAmount, args.config.minOrderSizeUSD)

(***************************************************************************)
(* Properties of the fields of a leader record (Spec)                      *)
(***************************************************************************)

(* the record s is the record r after a step: the fields given at creation
   are the same (initialTransactionHash is unique among the records) *)
SameRecord(r, s) ==
    /\ s.conditionId = r.conditionId
    /\ s.leaderAddress = r.leaderAddress
    /\ s.side = r.side
    /\ s.initialTradeSize = r.initialTradeSize
    /\ s.initialTradeTimestamp = r.initialTradeTimestamp
    /\ s.initialTransactionHash = r.initialTransactionHash

(* C40: in every step of any operation of any instance, each stored record
   keeps its conditionId, leaderAddress, side, initialTradeSize,
   initialTradeTimestamp and initialTransactionHash; a record changes in
   lastTradeTimestamp only while it is and stays active, or in isActive only,
   from true to false; the deactivating updates of the two cleanups change
   isActive alone; a record that appears is active and its instrument had no
   active record; and an instrument that has an active record before and
   after a step has the same one with the same leaderAddress. *)
C40_FoundingFieldsKept ==
    [][ /\ \A r \in leaders :
              \E s \in leaders' :
                  /\ SameRecord(r, s)
                  /\ \/ s = r
                     \/ /\ r.isActive /\ s.isActive
                        /\ s = [r EXCEPT !.lastTradeTimestamp = s.lastTradeTimestamp]
                     \/ /\ r.isActive
                        /\ s = [r EXCEPT !.isActive = FALSE]
        /\ \A s \in leaders' :
              (\A r \in leaders : ~SameRecord(r, s)) =>
                  /\ s.isActive
                  /\ ~HasActiveLeader(s.conditionId)
                  /\ s.lastTradeTimestamp = s.initialTradeTimestamp
        /\ \A p \in Procs :
              (pc[p] \in {"unf_update", "stale_update"} /\ pc'[p] = "idle") =>
                  \A r \in leaders : r \in leaders' \/ [r EXCEPT !.isActive = FALSE] \in leaders'
        /\ \A c \in Markets :
              (HasActiveLeader(c) /\ HasActiveLeader(c)') =>
                  SameRecord(getActiveLeader(c), getActiveLeader(c)') ]_vars

(* an instrument has a released record whose lastTradeTimestamp was raised
   while it was active, and an active record of another account that was
   established after the release and has had its own raised *)
C40_Witness ==
    \E r, s \in leaders :
        /\ r.conditionId = s.conditionId
        /\ r.leaderAddress # s.leaderAddress
        /\ ~r.isActive /\ s.isActive
        /\ r.lastTradeTimestamp > r.initialTradeTimestamp
        /\ s.lastTradeTimestamp > s.initialTradeTimestamp

====
